-------------------------- MODULE ToolCallsSafety --------------------------
(***************************************************************************)
(* The safety properties of the tool task, for any number of calls and     *)
(* restarts, any shapes of calls and any rounds.                           *)
(***************************************************************************)
EXTENDS ToolCalls, FiniteSetTheorems, TLAPS

-----------------------------------------------------------------------------
(* The inductive invariant, call by call.                                  *)

\* Only a restart puts a call back to where it may be run again.
Counted(c) ==
    /\ attempt[c] <= crashes + 1
    /\ phase[c] \in {"execute", "probe"} /\ doing[c] = Idle /\ ~marked[c]
        => attempt[c] <= crashes

\* What a phase says of the rest of the task.
Phased(c) ==
    /\ phase[c] \in {"listed", "call", "confirm"} => attempt[c] = 0
    /\ phase[c] \in {"execute", "probe"} => attempt[c] > 0
    /\ phase[c] = "confirm" => call[c].outward /\ ~call[c].nested
    /\ doing[c] = Run => phase[c] = "execute"
    /\ doing[c] # Idle => Live(c)
    /\ result[c] # "none" => phase[c] \in Over
    /\ pid[c] => attempt[c] > 0

\* The call that may not be repeated.
Unsafe(c) == call[c].stored = "unsafe" \/ "safe" \notin call[c].look

Permitted(c) ==
    /\ Unsafe(c) => attempt[c] <= 1
    /\ call[c].outward /\ attempt[c] > 0 => answer[c] = "approve" /\ ~call[c].nested
    /\ \A a \in Attempt : effect[c][a] # "none" => a <= attempt[c]
    /\ \A a \in Attempt : child[c][a] # "none" => effect[c][a] # "none"

\* What the body of attempt a says of it.
Truthful(c, a, body) ==
    /\ body \in {"ended", "timeout", "interrupted"} => attempt[c] > 0
    /\ body = "ended" => effect[c][a] = "ended"
    /\ body = "timeout" => effect[c][a] # "none"

\* The bodies on disk, the one to be published or committed, and the result.
Honest(c) ==
    /\ \A a \in Attempt : Truthful(c, a, output[c][a])
    /\ doing[c].step \in {"publish", "commit"}
        => Truthful(c, Directory(c), doing[c].body)
    /\ doing[c].step = "commit"
        => \/ output[c][Directory(c)] = doing[c].body
           \/ doing[c].body = "aborted" /\ "gone" \in call[c].look
    /\ result[c] # "none"
        => /\ Truthful(c, Directory(c), result[c])
           /\ \/ output[c][Directory(c)] = result[c]
              \/ result[c] = "aborted" /\ (attempt[c] = 0 \/ "gone" \in call[c].look)

CallOK(c) == Counted(c) /\ Phased(c) /\ Permitted(c) /\ Honest(c)

IInv == TypeOK /\ \A c \in Call : CallOK(c)

-----------------------------------------------------------------------------
(* The steps of an invocation.                                             *)

\* What an invocation does next is one of three things.
LEMMA StepKinds ==
    /\ \A s \in Step :
        \/ s = Idle \/ s = Run
        \/ s.step \in {"publish", "commit"} /\ s.body \in Body /\ s.ending \in Ending
    /\ Idle \in Step /\ Run \in Step /\ Idle # Run
    /\ Idle.step = "idle" /\ Run.step = "run"
    /\ \A b \in Body, e \in Ending :
        /\ Publish(b, e) \in Step /\ Commit(b, e) \in Step
        /\ Publish(b, e).step = "publish" /\ Commit(b, e).step = "commit"
        /\ Publish(b, e).body = b /\ Commit(b, e).body = b
        /\ Publish(b, e).ending = e /\ Commit(b, e).ending = e
        /\ Publish(b, e) # Idle /\ Publish(b, e) # Run
        /\ Commit(b, e) # Idle /\ Commit(b, e) # Run
  BY DEF Step, Idle, Run, Publish, Commit, Body, Ending

LEMMA OutputSteps ==
    ASSUME NEW b \in Body, NEW e \in Ending
    PROVE  /\ Publish(b, e) \in Step /\ Commit(b, e) \in Step
           /\ Publish(b, e).step = "publish" /\ Commit(b, e).step = "commit"
           /\ Publish(b, e).body = b /\ Commit(b, e).body = b
           /\ Publish(b, e).ending = e /\ Commit(b, e).ending = e
           /\ Publish(b, e) \notin {Idle, Run} /\ Commit(b, e) \notin {Idle, Run}
  BY DEF Step, Idle, Run, Publish, Commit

LEMMA Kinds ==
    /\ "unrun" \in Body /\ "ended" \in Body /\ "timeout" \in Body
    /\ "interrupted" \in Body /\ "aborted" \in Body /\ "orphaned" \in Body
    /\ "completed" \in Ending /\ "failed" \in Ending /\ "aborted" \in Ending
  BY DEF Body, Ending

-----------------------------------------------------------------------------
(* A step of one call.                                                     *)

USE DEF Does, durable, world

\* Nothing the invariant says of a call has changed.
SameFor(d) ==
    /\ call'[d] = call[d] /\ phase'[d] = phase[d] /\ attempt'[d] = attempt[d]
    /\ pid'[d] = pid[d] /\ marked'[d] = marked[d] /\ answer'[d] = answer[d]
    /\ result'[d] = result[d] /\ output'[d] = output[d] /\ effect'[d] = effect[d]
    /\ child'[d] = child[d] /\ doing'[d] = doing[d] /\ crashes' = crashes

LEMMA SameCall ==
    ASSUME NEW d \in Call, CallOK(d), SameFor(d)
    PROVE  CallOK(d)'
  BY DEF CallOK, SameFor, Counted, Phased, Permitted, Honest, Truthful, Unsafe,
         Live, Directory

\* A step of call c that keeps the rest.
LEMMA OneCall ==
    ASSUME IInv, TypeOK', NEW c \in Call, CallOK(c)',
           \A d \in Call : d # c => SameFor(d)
    PROVE  IInv'
  BY SameCall DEF IInv

\* What the parts of a call are.
LEMMA Ranges ==
    ASSUME IInv, NEW c \in Call
    PROVE  /\ attempt[c] \in Nat /\ crashes \in Nat /\ MaxCrashes \in Nat
           /\ attempt[c] > 0 => attempt[c] \in Attempt
           /\ Directory(c) \in Attempt /\ 1 \in Attempt
           /\ output[c] \in [Attempt -> Body \cup {"none"}]
           /\ effect[c] \in [Attempt -> {"none", "started", "ended"}]
           /\ child[c] \in [Attempt -> {"none", "alive", "gone"}]
           /\ doing[c] \in Step
           /\ CallOK(c)
  BY BoundsAssumption DEF IInv, TypeOK, Attempt, Directory

\* A call that is not executed.
LEMMA KeepsSettleUnrun ==
    ASSUME IInv, NEW c \in Call, SettleUnrun(c),
           Invoked(c)
    PROVE  IInv'
  <1>1. TypeOK'
    BY Ranges, StepKinds, BoundsAssumption DEF IInv, TypeOK, CallOK, Phased,
       Over, Ending, Body, SettleUnrun, Invoked
  <1>2. \A d \in Call : d # c => SameFor(d)
    BY DEF IInv, TypeOK, SameFor, SettleUnrun
  <1>3. CallOK(c)'
    BY Ranges, StepKinds, SMTT(30) DEF IInv, TypeOK, CallOK, Counted, Phased,
       Permitted, Honest, Truthful, Unsafe, Live, Directory, Over, Ending,
       Body, SettleUnrun, Invoked
  <1> QED
    BY <1>1, <1>2, <1>3, OneCall

\* The intent, of a call that may have an effect.
LEMMA KeepsBegin ==
    ASSUME IInv, NEW c \in Call, Begin(c),
           Invoked(c), phase[c] \in {"call", "confirm"},
           call[c].outward => answer[c] = "approve" /\ ~call[c].nested
    PROVE  IInv'
  <1>1. TypeOK'
    BY Ranges, StepKinds, BoundsAssumption DEF IInv, TypeOK, CallOK, Phased,
       Over, Ending, Body, Begin, Invoked
  <1>2. \A d \in Call : d # c => SameFor(d)
    BY DEF IInv, TypeOK, SameFor, Begin
  <1>3. CallOK(c)'
    <2>1. /\ CallOK(c) /\ attempt[c] \in Nat /\ crashes \in Nat /\ MaxCrashes \in Nat
          /\ Live(c) /\ attempt[c] = 0
          /\ call[c].outward => answer[c] = "approve" /\ ~call[c].nested
          /\ \A a \in Attempt : a \in Int
      BY Ranges, StepKinds DEF IInv, TypeOK, CallOK, Phased, Unsafe, Begin,
         Invoked, Attempt
    <2>2. /\ phase'[c] = "execute"
          /\ attempt'[c] = 1
          /\ pid'[c] = FALSE
          /\ doing'[c] = Run
      BY <2>1, Ranges, Kinds, OutputSteps DEF IInv, TypeOK, Begin
    <2>3. /\ call'[c] = call[c] /\ marked'[c] = marked[c] /\ answer'[c] = answer[c]
          /\ result'[c] = result[c] /\ output'[c] = output[c] /\ effect'[c] = effect[c]
          /\ child'[c] = child[c] /\ crashes' = crashes
      BY DEF Begin
    <2>4. Counted(c)'
      BY <2>1, <2>2, <2>3, StepKinds DEF CallOK, Counted, Phased, Live, Over,
         Ending
    <2>5. Phased(c)'
      BY <2>1, <2>2, <2>3, StepKinds DEF CallOK, Phased, Live, Over, Ending
    <2>6. Permitted(c)'
      BY <2>1, <2>2, <2>3, StepKinds DEF CallOK, Permitted, Unsafe, Phased,
         Live, Over, Ending
    <2>7. Honest(c)'
      BY <2>1, <2>2, <2>3, StepKinds DEF CallOK, Honest, Truthful, Directory,
         Phased, Live, Over, Ending
    <2> QED
      BY <2>4, <2>5, <2>6, <2>7 DEF CallOK
  <1> QED
    BY <1>1, <1>2, <1>3, OneCall

\* The wait for the operator.
LEMMA KeepsAsk ==
    ASSUME IInv, NEW c \in Call, Ask(c)
    PROVE  IInv'
  <1>1. TypeOK'
    BY Ranges, StepKinds, BoundsAssumption DEF IInv, TypeOK, CallOK, Phased,
       Over, Ending, Body, Ask, Invoked
  <1>2. \A d \in Call : d # c => SameFor(d)
    BY DEF IInv, TypeOK, SameFor, Ask
  <1>3. CallOK(c)'
    <2>1. /\ CallOK(c) /\ attempt[c] \in Nat /\ crashes \in Nat /\ MaxCrashes \in Nat
          /\ Live(c) /\ phase[c] = "call" /\ doing[c] = Idle
          /\ call[c].outward /\ ~call[c].nested
      BY Ranges, StepKinds DEF IInv, TypeOK, CallOK, Phased, Unsafe, Ask,
         Invoked
    <2>2. phase'[c] = "confirm"
      BY <2>1, Ranges, Kinds, OutputSteps DEF IInv, TypeOK, Ask
    <2>3. /\ call'[c] = call[c] /\ attempt'[c] = attempt[c] /\ pid'[c] = pid[c]
          /\ marked'[c] = marked[c] /\ answer'[c] = answer[c] /\ result'[c] = result[c]
          /\ output'[c] = output[c] /\ effect'[c] = effect[c] /\ child'[c] = child[c]
          /\ doing'[c] = doing[c] /\ crashes' = crashes
      BY DEF Ask
    <2>4. Counted(c)'
      BY <2>1, <2>2, <2>3, StepKinds DEF CallOK, Counted, Phased, Live, Over,
         Ending
    <2>5. Phased(c)'
      BY <2>1, <2>2, <2>3, StepKinds DEF CallOK, Phased, Live, Over, Ending
    <2>6. Permitted(c)'
      BY <2>1, <2>2, <2>3, StepKinds DEF CallOK, Permitted, Unsafe, Phased,
         Live, Over, Ending
    <2>7. Honest(c)'
      BY <2>1, <2>2, <2>3, StepKinds DEF CallOK, Honest, Truthful, Directory,
         Phased, Live, Over, Ending
    <2> QED
      BY <2>4, <2>5, <2>6, <2>7 DEF CallOK
  <1> QED
    BY <1>1, <1>2, <1>3, OneCall

\* The gateway sees a card.
LEMMA KeepsFindCard ==
    ASSUME IInv, NEW c \in Call, FindCard(c)
    PROVE  IInv'
  <1>1. TypeOK'
    BY DEF IInv, TypeOK, FindCard
  <1>2. \A d \in Call : SameFor(d)
    BY DEF SameFor, FindCard
  <1> QED
    BY <1>1, <1>2, SameCall DEF IInv

\* An answer, which does not replace an earlier one.
LEMMA KeepsAnswer ==
    ASSUME IInv, NEW c \in Call, NEW v \in {"approve", "reject"}, AnswerConfirm(c, v)
    PROVE  IInv'
  <1>1. TypeOK'
    BY Ranges, StepKinds, BoundsAssumption DEF IInv, TypeOK, CallOK, Phased,
       Over, Ending, Body, AnswerConfirm
  <1>2. \A d \in Call : d # c => SameFor(d)
    BY DEF IInv, TypeOK, SameFor, AnswerConfirm
  <1>3. CallOK(c)'
    <2>1. /\ CallOK(c) /\ attempt[c] \in Nat /\ crashes \in Nat /\ MaxCrashes \in Nat
          /\ answer[c] \in {"none", "approve", "reject"}
      BY Ranges, StepKinds DEF IInv, TypeOK, CallOK, Phased, Unsafe,
         AnswerConfirm
    <2>2. answer'[c] = IF answer[c] = "none" THEN v ELSE answer[c]
      BY <2>1, Ranges, Kinds, OutputSteps DEF IInv, TypeOK, AnswerConfirm
    <2>3. /\ call'[c] = call[c] /\ phase'[c] = phase[c] /\ attempt'[c] = attempt[c]
          /\ pid'[c] = pid[c] /\ marked'[c] = marked[c] /\ result'[c] = result[c]
          /\ output'[c] = output[c] /\ effect'[c] = effect[c] /\ child'[c] = child[c]
          /\ doing'[c] = doing[c] /\ crashes' = crashes
      BY DEF AnswerConfirm
    <2>4. Counted(c)'
      BY <2>1, <2>2, <2>3, StepKinds DEF CallOK, Counted, Phased, Live, Over,
         Ending
    <2>5. Phased(c)'
      BY <2>1, <2>2, <2>3, StepKinds DEF CallOK, Phased, Live, Over, Ending
    <2>6. Permitted(c)'
      BY <2>1, <2>2, <2>3, StepKinds DEF CallOK, Permitted, Unsafe, Phased,
         Live, Over, Ending
    <2>7. Honest(c)'
      BY <2>1, <2>2, <2>3, StepKinds DEF CallOK, Honest, Truthful, Directory,
         Phased, Live, Over, Ending
    <2> QED
      BY <2>4, <2>5, <2>6, <2>7 DEF CallOK
  <1> QED
    BY <1>1, <1>2, <1>3, OneCall

\* The effect begins.
LEMMA KeepsStart ==
    ASSUME IInv, NEW c \in Call, StartEffect(c)
    PROVE  IInv'
  <1>1. TypeOK'
    BY Ranges, StepKinds, BoundsAssumption DEF IInv, TypeOK, CallOK, Phased,
       Over, Ending, Body, StartEffect
  <1>2. \A d \in Call : d # c => SameFor(d)
    BY DEF IInv, TypeOK, SameFor, StartEffect
  <1>3. CallOK(c)'
    BY Ranges, StepKinds, SMTT(30) DEF IInv, TypeOK, CallOK, Counted, Phased,
       Permitted, Honest, Truthful, Unsafe, Live, Directory, Over, Ending,
       Body, StartEffect
  <1> QED
    BY <1>1, <1>2, <1>3, OneCall

\* The identity of the child.
LEMMA KeepsRecord ==
    ASSUME IInv, NEW c \in Call, RecordChild(c)
    PROVE  IInv'
  <1>1. TypeOK'
    BY Ranges, StepKinds, BoundsAssumption DEF IInv, TypeOK, CallOK, Phased,
       Over, Ending, Body, RecordChild
  <1>2. \A d \in Call : d # c => SameFor(d)
    BY DEF IInv, TypeOK, SameFor, RecordChild
  <1>3. CallOK(c)'
    BY Ranges, StepKinds, SMTT(30) DEF IInv, TypeOK, CallOK, Counted, Phased,
       Permitted, Honest, Truthful, Unsafe, Live, Directory, Over, Ending,
       Body, RecordChild
  <1> QED
    BY <1>1, <1>2, <1>3, OneCall

\* The tool returns.
LEMMA KeepsEnd ==
    ASSUME IInv, NEW c \in Call, EndEffect(c)
    PROVE  IInv'
  <1>1. TypeOK'
    BY Ranges, StepKinds, BoundsAssumption DEF IInv, TypeOK, CallOK, Phased,
       Over, Ending, Body, EndEffect, Reaped
  <1>2. \A d \in Call : d # c => SameFor(d)
    BY DEF IInv, TypeOK, SameFor, EndEffect, Reaped
  <1>3. CallOK(c)'
    <2>1. /\ CallOK(c) /\ attempt[c] \in Nat /\ crashes \in Nat /\ MaxCrashes \in Nat
          /\ doing[c] = Run /\ attempt[c] \in Attempt
          /\ effect[c][attempt[c]] = "started"
          /\ effect[c] \in [Attempt -> {"none", "started", "ended"}]
          /\ child[c] \in [Attempt -> {"none", "alive", "gone"}]
      BY Ranges, StepKinds DEF IInv, TypeOK, CallOK, Phased, Unsafe,
         EndEffect, Reaped
    <2>2. /\ effect'[c] = [effect[c] EXCEPT ![attempt[c]] = "ended"]
          /\ child'[c] = [child[c] EXCEPT ![attempt[c]] = IF @ = "alive" THEN "gone" ELSE @]
          /\ doing'[c] \notin {Idle, Run} /\ doing'[c].step = "publish"
          /\ doing'[c].body = "ended"
      BY <2>1, Ranges, Kinds, OutputSteps DEF IInv, TypeOK, EndEffect, Reaped
    <2>3. /\ call'[c] = call[c] /\ phase'[c] = phase[c] /\ attempt'[c] = attempt[c]
          /\ pid'[c] = pid[c] /\ marked'[c] = marked[c] /\ answer'[c] = answer[c]
          /\ result'[c] = result[c] /\ output'[c] = output[c] /\ crashes' = crashes
      BY DEF EndEffect, Reaped
    <2>4. Counted(c)'
      BY <2>1, <2>2, <2>3, StepKinds DEF CallOK, Counted, Phased, Live, Over,
         Ending
    <2>5. Phased(c)'
      BY <2>1, <2>2, <2>3, StepKinds DEF CallOK, Phased, Live, Over, Ending
    <2>6. Permitted(c)'
      BY <2>1, <2>2, <2>3, StepKinds DEF CallOK, Permitted, Unsafe, Phased,
         Live, Over, Ending
    <2>7. Honest(c)'
      BY <2>1, <2>2, <2>3, StepKinds DEF CallOK, Honest, Truthful, Directory,
         Phased, Live, Over, Ending
    <2> QED
      BY <2>4, <2>5, <2>6, <2>7 DEF CallOK
  <1> QED
    BY <1>1, <1>2, <1>3, OneCall

\* The host stops the tool.
LEMMA KeepsTimeOut ==
    ASSUME IInv, NEW c \in Call, TimeOut(c)
    PROVE  IInv'
  <1>1. TypeOK'
    BY Ranges, StepKinds, BoundsAssumption DEF IInv, TypeOK, CallOK, Phased,
       Over, Ending, Body, TimeOut, Reaped
  <1>2. \A d \in Call : d # c => SameFor(d)
    BY DEF IInv, TypeOK, SameFor, TimeOut, Reaped
  <1>3. CallOK(c)'
    <2>1. /\ CallOK(c) /\ attempt[c] \in Nat /\ crashes \in Nat /\ MaxCrashes \in Nat
          /\ doing[c] = Run /\ attempt[c] \in Attempt
          /\ effect[c][attempt[c]] = "started"
          /\ child[c] \in [Attempt -> {"none", "alive", "gone"}]
      BY Ranges, StepKinds DEF IInv, TypeOK, CallOK, Phased, Unsafe, TimeOut,
         Reaped
    <2>2. /\ child'[c] = [child[c] EXCEPT ![attempt[c]] = IF @ = "alive" THEN "gone" ELSE @]
          /\ doing'[c] \notin {Idle, Run} /\ doing'[c].step = "publish"
          /\ doing'[c].body = "timeout"
      BY <2>1, Ranges, Kinds, OutputSteps DEF IInv, TypeOK, TimeOut, Reaped
    <2>3. /\ call'[c] = call[c] /\ phase'[c] = phase[c] /\ attempt'[c] = attempt[c]
          /\ pid'[c] = pid[c] /\ marked'[c] = marked[c] /\ answer'[c] = answer[c]
          /\ result'[c] = result[c] /\ output'[c] = output[c] /\ effect'[c] = effect[c]
          /\ crashes' = crashes
      BY DEF TimeOut, Reaped
    <2>4. Counted(c)'
      BY <2>1, <2>2, <2>3, StepKinds DEF CallOK, Counted, Phased, Live, Over,
         Ending
    <2>5. Phased(c)'
      BY <2>1, <2>2, <2>3, StepKinds DEF CallOK, Phased, Live, Over, Ending
    <2>6. Permitted(c)'
      BY <2>1, <2>2, <2>3, StepKinds DEF CallOK, Permitted, Unsafe, Phased,
         Live, Over, Ending
    <2>7. Honest(c)'
      BY <2>1, <2>2, <2>3, StepKinds DEF CallOK, Honest, Truthful, Directory,
         Phased, Live, Over, Ending
    <2> QED
      BY <2>4, <2>5, <2>6, <2>7 DEF CallOK
  <1> QED
    BY <1>1, <1>2, <1>3, OneCall

\* A body on disk.
LEMMA KeepsPublish ==
    ASSUME IInv, NEW c \in Call, PublishOutput(c)
    PROVE  IInv'
  <1>1. TypeOK'
    <2>1. /\ Directory(c) \in Attempt /\ doing[c].body \in Body
          /\ Commit(doing[c].body, doing[c].ending) \in Step
      BY Ranges, StepKinds, OutputSteps DEF PublishOutput
    <2>2. /\ output' \in [Call -> [Attempt -> Body \cup {"none"}]]
          /\ doing' \in [Call -> Step]
      BY <2>1 DEF IInv, TypeOK, PublishOutput
    <2> QED
      BY <2>2 DEF IInv, TypeOK, PublishOutput
  <1>2. \A d \in Call : d # c => SameFor(d)
    BY DEF IInv, TypeOK, SameFor, PublishOutput
  <1>3. CallOK(c)'
    <2>1. /\ CallOK(c) /\ attempt[c] \in Nat /\ crashes \in Nat /\ MaxCrashes \in Nat
          /\ doing[c].step = "publish" /\ doing[c] \notin {Idle, Run}
          /\ doing[c].body \in Body /\ doing[c].ending \in Ending
          /\ Directory(c) \in Attempt
          /\ output[c] \in [Attempt -> Body \cup {"none"}]
      BY Ranges, StepKinds DEF IInv, TypeOK, CallOK, Phased, Unsafe,
         PublishOutput
    <2>2. /\ output'[c] = [output[c] EXCEPT ![Directory(c)] = doing[c].body]
          /\ doing'[c] \notin {Idle, Run} /\ doing'[c].step = "commit"
          /\ doing'[c].body = doing[c].body
      BY <2>1, Ranges, Kinds, OutputSteps DEF IInv, TypeOK, PublishOutput
    <2>3. /\ call'[c] = call[c] /\ phase'[c] = phase[c] /\ attempt'[c] = attempt[c]
          /\ pid'[c] = pid[c] /\ marked'[c] = marked[c] /\ answer'[c] = answer[c]
          /\ result'[c] = result[c] /\ effect'[c] = effect[c] /\ child'[c] = child[c]
          /\ crashes' = crashes
      BY DEF PublishOutput
    <2>4. Counted(c)'
      BY <2>1, <2>2, <2>3, StepKinds DEF CallOK, Counted, Phased, Live, Over,
         Ending
    <2>5. Phased(c)'
      BY <2>1, <2>2, <2>3, StepKinds DEF CallOK, Phased, Live, Over, Ending
    <2>6. Permitted(c)'
      BY <2>1, <2>2, <2>3, StepKinds DEF CallOK, Permitted, Unsafe, Phased,
         Live, Over, Ending
    <2>7. Honest(c)'
      BY <2>1, <2>2, <2>3, StepKinds DEF CallOK, Honest, Truthful, Directory,
         Phased, Live, Over, Ending
    <2> QED
      BY <2>4, <2>5, <2>6, <2>7 DEF CallOK
  <1> QED
    BY <1>1, <1>2, <1>3, OneCall

\* The result and the outcome.
LEMMA KeepsCommit ==
    ASSUME IInv, NEW c \in Call, CommitResult(c)
    PROVE  IInv'
  <1>1. TypeOK'
    <2>1. doing[c].body \in Body /\ doing[c].ending \in Over
      BY Ranges, StepKinds DEF CommitResult, Over
    <2> QED
      BY <2>1, StepKinds DEF IInv, TypeOK, CommitResult
  <1>2. \A d \in Call : d # c => SameFor(d)
    BY DEF IInv, TypeOK, SameFor, CommitResult
  <1>3. CallOK(c)'
    BY Ranges, StepKinds, SMTT(30) DEF IInv, TypeOK, CallOK, Counted, Phased,
       Permitted, Honest, Truthful, Unsafe, Live, Directory, Over, Ending,
       Body, CommitResult
  <1> QED
    BY <1>1, <1>2, <1>3, OneCall

\* An error that ends the invocation.
LEMMA KeepsFault ==
    ASSUME IInv, NEW c \in Call, Fault(c)
    PROVE  IInv'
  <1>1. TypeOK'
    BY Ranges, StepKinds, BoundsAssumption DEF IInv, TypeOK, CallOK, Phased,
       Over, Ending, Body, Fault, Invoked
  <1>2. \A d \in Call : d # c => SameFor(d)
    BY DEF IInv, TypeOK, SameFor, Fault
  <1>3. CallOK(c)'
    <2>1. /\ CallOK(c) /\ attempt[c] \in Nat /\ crashes \in Nat /\ MaxCrashes \in Nat
          /\ doing[c] # Idle => Live(c)
          /\ Live(c)
      BY Ranges, StepKinds DEF IInv, TypeOK, CallOK, Phased, Unsafe, Fault,
         Invoked
    <2>2. /\ phase'[c] = "faulted"
          /\ doing'[c] = Idle
      BY <2>1, Ranges, Kinds, OutputSteps DEF IInv, TypeOK, Fault
    <2>3. /\ call'[c] = call[c] /\ attempt'[c] = attempt[c] /\ pid'[c] = pid[c]
          /\ marked'[c] = marked[c] /\ answer'[c] = answer[c] /\ result'[c] = result[c]
          /\ output'[c] = output[c] /\ effect'[c] = effect[c] /\ child'[c] = child[c]
          /\ crashes' = crashes
      BY DEF Fault
    <2>4. Counted(c)'
      BY <2>1, <2>2, <2>3, StepKinds DEF CallOK, Counted, Phased, Live, Over,
         Ending
    <2>5. Phased(c)'
      BY <2>1, <2>2, <2>3, StepKinds DEF CallOK, Phased, Live, Over, Ending
    <2>6. Permitted(c)'
      BY <2>1, <2>2, <2>3, StepKinds DEF CallOK, Permitted, Unsafe, Phased,
         Live, Over, Ending
    <2>7. Honest(c)'
      BY <2>1, <2>2, <2>3, StepKinds DEF CallOK, Honest, Truthful, Directory,
         Phased, Live, Over, Ending
    <2> QED
      BY <2>4, <2>5, <2>6, <2>7 DEF CallOK
  <1> QED
    BY <1>1, <1>2, <1>3, OneCall

\* The mark.
LEMMA KeepsAbort ==
    ASSUME IInv, NEW c \in Call, Abort(c)
    PROVE  IInv'
  <1>1. TypeOK'
    BY Ranges, StepKinds, BoundsAssumption DEF IInv, TypeOK, CallOK, Phased,
       Over, Ending, Body, Abort
  <1>2. \A d \in Call : d # c => SameFor(d)
    BY DEF IInv, TypeOK, SameFor, Abort
  <1>3. CallOK(c)'
    BY Ranges, StepKinds, SMTT(30) DEF IInv, TypeOK, CallOK, Counted, Phased,
       Permitted, Honest, Truthful, Unsafe, Live, Directory, Over, Ending,
       Body, Abort
  <1> QED
    BY <1>1, <1>2, <1>3, OneCall

\* A cancelled invocation.
LEMMA KeepsCancelled ==
    ASSUME IInv, NEW c \in Call, Cancelled(c)
    PROVE  IInv'
  <1>1. TypeOK'
    <2>1. attempt[c] > 0 => Reaped(c) \in [Call -> [Attempt -> {"none", "alive", "gone"}]]
      BY Ranges DEF IInv, TypeOK, Reaped
    <2>2. doing[c] = Run => attempt[c] > 0
      BY Ranges DEF CallOK, Phased
    <2> QED
      BY <2>1, <2>2, StepKinds DEF IInv, TypeOK, Cancelled
  <1>2. \A d \in Call : d # c => SameFor(d)
    BY DEF IInv, TypeOK, SameFor, Cancelled, Reaped
  <1>3. CallOK(c)'
    <2>1. /\ CallOK(c) /\ attempt[c] \in Nat /\ crashes \in Nat /\ MaxCrashes \in Nat
          /\ marked[c]
          /\ child[c] \in [Attempt -> {"none", "alive", "gone"}]
          /\ \A a \in Attempt : child'[c][a] # "none" => child[c][a] # "none"
      BY Ranges, StepKinds DEF IInv, TypeOK, CallOK, Phased, Unsafe,
         Cancelled, Reaped
    <2>2. doing'[c] = Idle
      BY <2>1, Ranges, Kinds, OutputSteps DEF IInv, TypeOK, Cancelled, Reaped
    <2>3. /\ call'[c] = call[c] /\ phase'[c] = phase[c] /\ attempt'[c] = attempt[c]
          /\ pid'[c] = pid[c] /\ marked'[c] = marked[c] /\ answer'[c] = answer[c]
          /\ result'[c] = result[c] /\ output'[c] = output[c] /\ effect'[c] = effect[c]
          /\ crashes' = crashes
      BY DEF Cancelled, Reaped
    <2>4. Counted(c)'
      BY <2>1, <2>2, <2>3, StepKinds DEF CallOK, Counted, Phased, Live, Over,
         Ending
    <2>5. Phased(c)'
      BY <2>1, <2>2, <2>3, StepKinds DEF CallOK, Phased, Live, Over, Ending
    <2>6. Permitted(c)'
      BY <2>1, <2>2, <2>3, StepKinds DEF CallOK, Permitted, Unsafe, Phased,
         Live, Over, Ending
    <2>7. Honest(c)'
      BY <2>1, <2>2, <2>3, StepKinds DEF CallOK, Honest, Truthful, Directory,
         Phased, Live, Over, Ending
    <2> QED
      BY <2>4, <2>5, <2>6, <2>7 DEF CallOK
  <1> QED
    BY <1>1, <1>2, <1>3, OneCall

\* The abort handler.
LEMMA KeepsHandler ==
    ASSUME IInv, NEW c \in Call, AbortHandler(c)
    PROVE  IInv'
  <1>1. TypeOK'
    <2>1. \/ doing' = [doing EXCEPT ![c] = Publish("orphaned", "aborted")]
          \/ doing' = [doing EXCEPT ![c] = Publish("aborted", "aborted")]
          \/ doing' = [doing EXCEPT ![c] = Commit("aborted", "aborted")]
      BY DEF AbortHandler
    <2>2. /\ Publish("orphaned", "aborted") \in Step
          /\ Publish("aborted", "aborted") \in Step
          /\ Commit("aborted", "aborted") \in Step
      BY Kinds, OutputSteps
    <2>3. doing' \in [Call -> Step]
      BY <2>1, <2>2 DEF IInv, TypeOK
    <2> QED
      BY <2>3 DEF IInv, TypeOK, AbortHandler
  <1>2. \A d \in Call : d # c => SameFor(d)
    BY DEF IInv, TypeOK, SameFor, AbortHandler
  <1>3. CallOK(c)'
    BY Ranges, StepKinds, SMTT(30) DEF IInv, TypeOK, CallOK, Counted, Phased,
       Permitted, Honest, Truthful, Unsafe, Live, Directory, Over, Ending,
       Body, AbortHandler
  <1> QED
    BY <1>1, <1>2, <1>3, OneCall

\* The body found on disk.
LEMMA KeepsReuse ==
    ASSUME IInv, NEW c \in Call, Reuse(c),
           Invoked(c), phase[c] \in {"execute", "probe"}
    PROVE  IInv'
  <1>1. TypeOK'
    <2>1. output[c][attempt[c]] \in Body
      BY Ranges DEF CallOK, Phased, Reuse, Found
    <2>2. doing' \in [Call -> Step]
      BY <2>1, Kinds, OutputSteps DEF IInv, TypeOK, Reuse
    <2> QED
      BY <2>2 DEF IInv, TypeOK, Reuse
  <1>2. \A d \in Call : d # c => SameFor(d)
    BY DEF IInv, TypeOK, SameFor, Reuse, Found
  <1>3. CallOK(c)'
    <2>1. /\ CallOK(c) /\ attempt[c] \in Nat /\ crashes \in Nat /\ MaxCrashes \in Nat
          /\ Live(c) /\ doing[c] = Idle /\ attempt[c] > 0
          /\ output[c][attempt[c]] \in Body /\ attempt[c] \in Attempt
      BY Ranges, StepKinds DEF IInv, TypeOK, CallOK, Phased, Unsafe, Reuse,
         Found, Invoked
    <2>2. /\ doing'[c] \notin {Idle, Run} /\ doing'[c].step = "commit"
          /\ doing'[c].body = output[c][attempt[c]]
      BY <2>1, Ranges, Kinds, OutputSteps DEF IInv, TypeOK, Reuse, Found
    <2>3. /\ call'[c] = call[c] /\ phase'[c] = phase[c] /\ attempt'[c] = attempt[c]
          /\ pid'[c] = pid[c] /\ marked'[c] = marked[c] /\ answer'[c] = answer[c]
          /\ result'[c] = result[c] /\ output'[c] = output[c] /\ effect'[c] = effect[c]
          /\ child'[c] = child[c] /\ crashes' = crashes
      BY DEF Reuse, Found
    <2>4. Counted(c)'
      BY <2>1, <2>2, <2>3, StepKinds DEF CallOK, Counted, Phased, Live, Over,
         Ending
    <2>5. Phased(c)'
      BY <2>1, <2>2, <2>3, StepKinds DEF CallOK, Phased, Live, Over, Ending
    <2>6. Permitted(c)'
      BY <2>1, <2>2, <2>3, StepKinds DEF CallOK, Permitted, Unsafe, Phased,
         Live, Over, Ending
    <2>7. Honest(c)'
      BY <2>1, <2>2, <2>3, StepKinds DEF CallOK, Honest, Truthful, Directory,
         Phased, Live, Over, Ending
    <2> QED
      BY <2>4, <2>5, <2>6, <2>7 DEF CallOK
  <1> QED
    BY <1>1, <1>2, <1>3, OneCall

\* Another attempt.
LEMMA KeepsRerun ==
    ASSUME IInv, NEW c \in Call, Rerun(c),
           Invoked(c), phase[c] \in {"execute", "probe"}
    PROVE  IInv'
  <1>1. TypeOK'
    <2>1. attempt[c] + 1 \in Attempt
      BY Ranges DEF CallOK, Counted, Invoked, IInv, TypeOK, Attempt
    <2> QED
      BY <2>1, StepKinds DEF IInv, TypeOK, Rerun
  <1>2. \A d \in Call : d # c => SameFor(d)
    BY DEF IInv, TypeOK, SameFor, Rerun
  <1>3. CallOK(c)'
    <2>1. /\ CallOK(c) /\ attempt[c] \in Nat /\ crashes \in Nat /\ MaxCrashes \in Nat
          /\ Live(c) /\ doing[c] = Idle /\ ~marked[c] /\ attempt[c] \in Attempt
          /\ phase[c] \in {"execute", "probe"} /\ ~Unsafe(c)
          /\ \A a \in Attempt : a \in Int
      BY Ranges, StepKinds DEF IInv, TypeOK, CallOK, Phased, Unsafe, Rerun,
         Invoked, Attempt
    <2>2. /\ phase'[c] = "execute"
          /\ doing'[c] = Run
          /\ pid'[c] = FALSE
          /\ attempt'[c] = attempt[c] + 1
      BY <2>1, Ranges, Kinds, OutputSteps DEF IInv, TypeOK, Rerun
    <2>3. /\ call'[c] = call[c] /\ marked'[c] = marked[c] /\ answer'[c] = answer[c]
          /\ result'[c] = result[c] /\ output'[c] = output[c] /\ effect'[c] = effect[c]
          /\ child'[c] = child[c] /\ crashes' = crashes
      BY DEF Rerun
    <2>4. Counted(c)'
      BY <2>1, <2>2, <2>3, StepKinds DEF CallOK, Counted, Phased, Live, Over,
         Ending
    <2>5. Phased(c)'
      BY <2>1, <2>2, <2>3, StepKinds DEF CallOK, Phased, Live, Over, Ending
    <2>6. Permitted(c)'
      BY <2>1, <2>2, <2>3, StepKinds DEF CallOK, Permitted, Unsafe, Phased,
         Live, Over, Ending
    <2>7. Honest(c)'
      BY <2>1, <2>2, <2>3, StepKinds DEF CallOK, Honest, Truthful, Directory,
         Phased, Live, Over, Ending
    <2> QED
      BY <2>4, <2>5, <2>6, <2>7 DEF CallOK
  <1> QED
    BY <1>1, <1>2, <1>3, OneCall

\* Nobody knows how far it came.
LEMMA KeepsInterrupted ==
    ASSUME IInv, NEW c \in Call, Interrupted(c),
           Invoked(c), phase[c] \in {"execute", "probe"}
    PROVE  IInv'
  <1>1. TypeOK'
    BY Ranges, StepKinds, BoundsAssumption DEF IInv, TypeOK, CallOK, Phased,
       Over, Ending, Body, Interrupted, Invoked
  <1>2. \A d \in Call : d # c => SameFor(d)
    BY DEF IInv, TypeOK, SameFor, Interrupted
  <1>3. CallOK(c)'
    BY Ranges, StepKinds, SMTT(30) DEF IInv, TypeOK, CallOK, Counted, Phased,
       Permitted, Honest, Truthful, Unsafe, Live, Directory, Over, Ending,
       Body, Interrupted, Invoked
  <1> QED
    BY <1>1, <1>2, <1>3, OneCall

\* The child is waited for.
LEMMA KeepsWatch ==
    ASSUME IInv, NEW c \in Call, Watch(c)
    PROVE  IInv'
  <1>1. TypeOK'
    BY Ranges, StepKinds, BoundsAssumption DEF IInv, TypeOK, CallOK, Phased,
       Over, Ending, Body, Watch, Invoked
  <1>2. \A d \in Call : d # c => SameFor(d)
    BY DEF IInv, TypeOK, SameFor, Watch
  <1>3. CallOK(c)'
    <2>1. /\ CallOK(c) /\ attempt[c] \in Nat /\ crashes \in Nat /\ MaxCrashes \in Nat
          /\ Live(c) /\ phase[c] = "execute" /\ doing[c] = Idle /\ ~marked[c]
      BY Ranges, StepKinds DEF IInv, TypeOK, CallOK, Phased, Unsafe, Watch,
         Invoked
    <2>2. phase'[c] = "probe"
      BY <2>1, Ranges, Kinds, OutputSteps DEF IInv, TypeOK, Watch
    <2>3. /\ call'[c] = call[c] /\ attempt'[c] = attempt[c] /\ pid'[c] = pid[c]
          /\ marked'[c] = marked[c] /\ answer'[c] = answer[c] /\ result'[c] = result[c]
          /\ output'[c] = output[c] /\ effect'[c] = effect[c] /\ child'[c] = child[c]
          /\ doing'[c] = doing[c] /\ crashes' = crashes
      BY DEF Watch
    <2>4. Counted(c)'
      BY <2>1, <2>2, <2>3, StepKinds DEF CallOK, Counted, Phased, Live, Over,
         Ending
    <2>5. Phased(c)'
      BY <2>1, <2>2, <2>3, StepKinds DEF CallOK, Phased, Live, Over, Ending
    <2>6. Permitted(c)'
      BY <2>1, <2>2, <2>3, StepKinds DEF CallOK, Permitted, Unsafe, Phased,
         Live, Over, Ending
    <2>7. Honest(c)'
      BY <2>1, <2>2, <2>3, StepKinds DEF CallOK, Honest, Truthful, Directory,
         Phased, Live, Over, Ending
    <2> QED
      BY <2>4, <2>5, <2>6, <2>7 DEF CallOK
  <1> QED
    BY <1>1, <1>2, <1>3, OneCall

\* A child comes to an end.
LEMMA KeepsChild ==
    ASSUME IInv, NEW c \in Call, NEW a \in Attempt, ChildExits(c, a)
    PROVE  IInv'
  <1>1. TypeOK'
    BY Ranges, StepKinds, BoundsAssumption DEF IInv, TypeOK, CallOK, Phased,
       Over, Ending, Body, ChildExits
  <1>2. \A d \in Call : d # c => SameFor(d)
    BY DEF IInv, TypeOK, SameFor, ChildExits
  <1>3. CallOK(c)'
    <2>1. /\ CallOK(c) /\ attempt[c] \in Nat /\ crashes \in Nat /\ MaxCrashes \in Nat
          /\ effect[c] \in [Attempt -> {"none", "started", "ended"}]
          /\ child[c] \in [Attempt -> {"none", "alive", "gone"}] /\ child[c][a] = "alive"
      BY Ranges, StepKinds DEF IInv, TypeOK, CallOK, Phased, Unsafe,
         ChildExits
    <2>2. /\ effect'[c] = [effect[c] EXCEPT ![a] = "ended"]
          /\ child'[c] = [child[c] EXCEPT ![a] = "gone"]
      BY <2>1, Ranges, Kinds, OutputSteps DEF IInv, TypeOK, ChildExits
    <2>3. /\ call'[c] = call[c] /\ phase'[c] = phase[c] /\ attempt'[c] = attempt[c]
          /\ pid'[c] = pid[c] /\ marked'[c] = marked[c] /\ answer'[c] = answer[c]
          /\ result'[c] = result[c] /\ output'[c] = output[c] /\ doing'[c] = doing[c]
          /\ crashes' = crashes
      BY DEF ChildExits
    <2>4. Counted(c)'
      BY <2>1, <2>2, <2>3, StepKinds DEF CallOK, Counted, Phased, Live, Over,
         Ending
    <2>5. Phased(c)'
      BY <2>1, <2>2, <2>3, StepKinds DEF CallOK, Phased, Live, Over, Ending
    <2>6. Permitted(c)'
      BY <2>1, <2>2, <2>3, StepKinds DEF CallOK, Permitted, Unsafe, Phased,
         Live, Over, Ending
    <2>7. Honest(c)'
      BY <2>1, <2>2, <2>3, StepKinds DEF CallOK, Honest, Truthful, Directory,
         Phased, Live, Over, Ending
    <2> QED
      BY <2>4, <2>5, <2>6, <2>7 DEF CallOK
  <1> QED
    BY <1>1, <1>2, <1>3, OneCall

-----------------------------------------------------------------------------
(* The steps that are not of one call.                                     *)

\* The calls of a group are created.
LEMMA KeepsGroup ==
    ASSUME IInv, CreateGroup
    PROVE  IInv'
  <1>1. TypeOK'
    BY DEF IInv, TypeOK, CreateGroup, Group, Listed
  <1>2. ASSUME NEW c \in Call PROVE CallOK(c)'
    <2>1. CallOK(c) /\ attempt[c] \in Nat /\ crashes \in Nat
      BY Ranges
    <2>2. CASE c \notin Group
      BY <1>2, <2>1, <2>2, SameCall DEF IInv, TypeOK, CreateGroup, SameFor
    <2>3. CASE c \in Group
      <3>1. phase[c] = "listed" /\ phase'[c] = "call" /\ doing[c] = Idle
        BY <2>1, <2>3 DEF IInv, TypeOK, CallOK, Phased, CreateGroup, Group, Listed, Live
      <3>2. result[c] = "none" /\ attempt[c] = 0
        BY <2>1, <3>1 DEF CallOK, Phased, Over, Ending
      <3>3. /\ Counted(c)' /\ Permitted(c)'
        BY <2>1, <3>1, <3>2 DEF CallOK, Counted, Permitted, Unsafe, CreateGroup
      <3>4. Phased(c)'
        BY <2>1, <3>1, <3>2, StepKinds DEF CallOK, Phased, Live, Over, Ending, CreateGroup
      <3>5. Honest(c)'
        BY <2>1, <3>1, <3>2, StepKinds DEF CallOK, Honest, Truthful, Directory, CreateGroup
      <3> QED
        BY <3>3, <3>4, <3>5 DEF CallOK
    <2> QED
      BY <2>2, <2>3
  <1> QED
    BY <1>1, <1>2 DEF IInv

\* The calls that were never created are answered.
LEMMA KeepsAbortListed ==
    ASSUME IInv, AbortListed
    PROVE  IInv'
  <1>1. TypeOK'
    BY DEF IInv, TypeOK, AbortListed, Listed, Over, Ending, Body
  <1>2. ASSUME NEW c \in Call PROVE CallOK(c)'
    <2>1. CallOK(c) /\ attempt[c] \in Nat /\ crashes \in Nat
      BY Ranges
    <2>2. CASE c \notin Listed
      BY <1>2, <2>1, <2>2, SameCall DEF IInv, TypeOK, AbortListed, SameFor
    <2>3. CASE c \in Listed
      <3>1. /\ phase[c] = "listed" /\ phase'[c] = "aborted" /\ doing[c] = Idle
            /\ result'[c] = "aborted" /\ attempt[c] = 0
        BY <2>1, <2>3 DEF IInv, TypeOK, CallOK, Phased, AbortListed, Listed, Live
      <3>2. Counted(c)' /\ Permitted(c)'
        BY <2>1, <3>1 DEF CallOK, Counted, Permitted, Unsafe, AbortListed
      <3>3. Phased(c)'
        BY <2>1, <3>1, StepKinds DEF CallOK, Phased, Live, Over, Ending, AbortListed
      <3>4. Honest(c)'
        BY <2>1, <3>1, StepKinds DEF CallOK, Honest, Truthful, Directory, AbortListed
      <3> QED
        BY <3>2, <3>3, <3>4 DEF CallOK
    <2> QED
      BY <2>2, <2>3
  <1> QED
    BY <1>1, <1>2 DEF IInv

\* A restart leaves one more attempt to every call that was on its way.
LEMMA KeepsCrash ==
    ASSUME IInv, Crash
    PROVE  IInv'
  <1>1. TypeOK'
    BY StepKinds, BoundsAssumption DEF IInv, TypeOK, Crash
  <1>2. ASSUME NEW c \in Call PROVE CallOK(c)'
    <2>1. /\ CallOK(c) /\ attempt[c] \in Nat /\ crashes \in Nat
          /\ doing'[c] = Idle /\ crashes' = crashes + 1
      BY Ranges DEF Crash
    <2>2. Counted(c)' /\ Permitted(c)'
      BY <2>1 DEF CallOK, Counted, Permitted, Unsafe, Crash
    <2>3. Phased(c)'
      BY <2>1, StepKinds DEF CallOK, Phased, Live, Crash
    <2>4. Honest(c)'
      BY <2>1, StepKinds DEF CallOK, Honest, Truthful, Directory, Crash
    <2> QED
      BY <2>2, <2>3, <2>4 DEF CallOK
  <1> QED
    BY <1>1, <1>2 DEF IInv

\* The run is cancelled, or nothing happens.
LEMMA KeepsRest ==
    ASSUME IInv, StopRun \/ UNCHANGED vars
    PROVE  IInv'
  <1>1. TypeOK'
    BY DEF IInv, TypeOK, StopRun, vars
  <1>2. \A c \in Call : SameFor(c)
    BY DEF SameFor, StopRun, vars
  <1> QED
    BY <1>1, <1>2, SameCall DEF IInv

-----------------------------------------------------------------------------
(* The theorems.                                                           *)

LEMMA Start == Init => IInv
  <1> SUFFICES ASSUME Init PROVE IInv
    OBVIOUS
  <1>1. TypeOK
    <2>1. doing \in [Call -> Step] /\ crashes \in 0 .. MaxCrashes
      BY BoundsAssumption, StepKinds DEF Init
    <2>2. /\ output \in [Call -> [Attempt -> Body \cup {"none"}]]
          /\ effect \in [Call -> [Attempt -> {"none", "started", "ended"}]]
          /\ child \in [Call -> [Attempt -> {"none", "alive", "gone"}]]
      BY DEF Init
    <2> QED
      BY <2>1, <2>2 DEF Init, TypeOK
  <1>2. ASSUME NEW c \in Call PROVE CallOK(c)
    <2>1. Counted(c) /\ Phased(c) /\ Permitted(c)
      BY <1>2, StepKinds DEF Init, Counted, Phased, Permitted, Unsafe
    <2>2. 1 \in Attempt /\ doing[c].step = "idle"
      BY <1>2, BoundsAssumption, StepKinds DEF Init, Attempt
    <2>3. Honest(c)
      BY <1>2, <2>2 DEF Init, Honest, Truthful, Directory
    <2> QED
      BY <2>1, <2>3 DEF CallOK
  <1> QED
    BY <1>1, <1>2 DEF IInv

\* What the harness does for a call keeps the invariant.
LEMMA KeepsProgress ==
    ASSUME IInv, NEW c \in Call, Progress(c)
    PROVE  IInv'
  <1>1. CASE Refuse(c)
    BY <1>1, KeepsSettleUnrun DEF Refuse
  <1>2. CASE Accept(c)
    BY <1>2, KeepsBegin DEF Accept
  <1>3. CASE Approved(c)
    <2>1. call[c].outward /\ ~call[c].nested
      BY <1>3, Ranges DEF Approved, CallOK, Phased
    <2> QED
      BY <1>3, <2>1, KeepsBegin, KeepsSettleUnrun DEF Approved
  <1>4. CASE NotApproved(c)
    BY <1>4, KeepsSettleUnrun DEF NotApproved
  <1>5. CASE Execute(c)
    BY <1>5, KeepsReuse, KeepsRerun, KeepsInterrupted DEF Execute
  <1>6. CASE Probe(c)
    BY <1>6, KeepsReuse, KeepsRerun, KeepsInterrupted DEF Probe
  <1>7. CASE Ask(c) \/ StartEffect(c) \/ RecordChild(c) \/ EndEffect(c) \/ TimeOut(c)
    BY <1>7, KeepsAsk, KeepsStart, KeepsRecord, KeepsEnd, KeepsTimeOut
  <1>8. CASE PublishOutput(c) \/ CommitResult(c) \/ Abort(c) \/ Cancelled(c)
    BY <1>8, KeepsPublish, KeepsCommit, KeepsAbort, KeepsCancelled
  <1>9. CASE AbortHandler(c) \/ Watch(c) \/ \E a \in Attempt : ChildExits(c, a)
    BY <1>9, KeepsHandler, KeepsWatch, KeepsChild
  <1> QED
    BY <1>1, <1>2, <1>3, <1>4, <1>5, <1>6, <1>7, <1>8, <1>9 DEF Progress

LEMMA Stepwise == IInv /\ [Next]_vars => IInv'
  <1> SUFFICES ASSUME IInv, [Next]_vars PROVE IInv'
    OBVIOUS
  <1>1. CASE \E c \in Call : Progress(c) \/ Fault(c) \/ FindCard(c)
    BY <1>1, KeepsProgress, KeepsFault, KeepsFindCard
  <1>2. CASE \E c \in Call, v \in {"approve", "reject"} : AnswerConfirm(c, v)
    BY <1>2, KeepsAnswer
  <1>3. CASE CreateGroup \/ AbortListed \/ Crash
    BY <1>3, KeepsGroup, KeepsAbortListed, KeepsCrash
  <1>4. CASE StopRun \/ UNCHANGED vars
    BY <1>4, KeepsRest
  <1> QED
    BY <1>1, <1>2, <1>3, <1>4 DEF Next

THEOREM ToolInvariant == Spec => []IInv
  BY Start, Stepwise, PTL DEF Spec

\* Tasks, documents, files and processes keep their types: in particular no
\* call has more attempts than restarts and one (tool.rs, resolve).
THEOREM ToolTypeCorrect == Spec => []TypeOK
  <1>1. IInv => TypeOK
    BY DEF IInv
  <1> QED
    BY <1>1, ToolInvariant, PTL

\* The effect of an unsafe call is started at most once (tool.rs, resolve).
THEOREM UnsafeStartsOnce == Spec => []UnsafeOnce
  <1>1. IInv => UnsafeOnce
    <2> SUFFICES ASSUME IInv, NEW c \in Call, Unsafe(c)
                 PROVE  Cardinality(Started(c)) <= 1
      BY DEF UnsafeOnce, Unsafe
    <2>1. Started(c) \subseteq {1}
      BY Ranges DEF CallOK, Permitted, Started, Attempt
    <2>2. Started(c) = {} \/ Started(c) = {1}
      BY <2>1
    <2>3. Cardinality({}) = 0 /\ Cardinality({1}) = 1
      BY FS_EmptySet, FS_Singleton
    <2> QED
      BY <2>2, <2>3
  <1> QED
    BY <1>1, ToolInvariant, PTL

\* No outward effect of an unattended run without an approval (confirm.rs).
THEOREM ApprovalComesFirst == Spec => []ApprovedFirst
  <1>1. IInv => ApprovedFirst
    <2> SUFFICES ASSUME IInv, NEW c \in Call, call[c].outward, Started(c) # {}
                 PROVE  answer[c] = "approve" /\ ~call[c].nested
      BY DEF ApprovedFirst
    <2>1. attempt[c] > 0
      BY Ranges DEF CallOK, Permitted, Started, Attempt
    <2> QED
      BY <2>1, Ranges DEF CallOK, Permitted
  <1> QED
    BY <1>1, ToolInvariant, PTL

\* A committed result says what happened to the attempt, and so does the body
\* on disk (tool.rs, commit_result; tool_output.rs, publish).
THEOREM ResultsAreHonest == Spec => []ResultHonest
  <1>1. IInv => ResultHonest
    <2> SUFFICES ASSUME IInv, NEW c \in Call, result[c] # "none"
                 PROVE  /\ result[c] = "ended" => effect[c][attempt[c]] = "ended"
                        /\ result[c] = "timeout" => effect[c][attempt[c]] # "none"
                        /\ result[c] = "interrupted" => attempt[c] > 0
                        /\ \/ output[c][Directory(c)] = result[c]
                           \/ /\ result[c] = "aborted"
                              /\ attempt[c] = 0 \/ "gone" \in call[c].look
      BY DEF ResultHonest
    <2>1. Honest(c) /\ attempt[c] \in Nat
      BY Ranges DEF CallOK
    <2> QED
      BY <2>1 DEF Honest, Truthful, Directory
  <1> QED
    BY <1>1, ToolInvariant, PTL

\* A new attempt waits for the recorded child of the one before (tool.rs,
\* probe).
THEOREM RerunsWait == Spec => RerunAfterChild
  <1> DEFINE Waits ==
          \A c \in Call :
              attempt'[c] # attempt[c] /\ pid[c] => child[c][attempt[c]] # "alive"
  <1>1. IInv /\ [Next]_vars => Waits
    <2> SUFFICES ASSUME IInv, [Next]_vars, NEW c \in Call,
                        attempt'[c] # attempt[c], pid[c]
                 PROVE  child[c][attempt[c]] # "alive"
      OBVIOUS
    <2>1. attempt[c] > 0 /\ attempt \in [Call -> Attempt \cup {0}] /\ CallOK(c)
      BY Ranges DEF CallOK, Phased, IInv, TypeOK
    <2>2. \E d \in Call : (Begin(d) /\ phase[d] \in {"call", "confirm"}) \/ Execute(d) \/ Probe(d)
      BY ZenonT(60)
      DEF Next, Progress, vars, Refuse, SettleUnrun, Ask, Accept, Approved, NotApproved,
         FindCard, AnswerConfirm, StartEffect, RecordChild, EndEffect, TimeOut,
         PublishOutput, CommitResult, Fault, StopRun, Abort, Cancelled, AbortHandler,
         Watch, ChildExits, Crash, CreateGroup, AbortListed
    <2>3. PICK d \in Call : (Begin(d) /\ phase[d] \in {"call", "confirm"}) \/ Execute(d) \/ Probe(d)
      BY <2>2
    <2>4. d = c
      BY <2>1, <2>3 DEF Begin, Execute, Probe, Reuse, Rerun, Interrupted
    <2> QED
      BY <2>1, <2>3, <2>4 DEF CallOK, Phased, Execute, Probe, Reuse
  <1> QED
    BY <1>1, ToolInvariant, PTL DEF Spec, RerunAfterChild

-----------------------------------------------------------------------------
(* One call at a time.                                                     *)

\* No child that the slot names for the last attempt is at work.
Clean(c) == ~(pid[c] /\ child[c][attempt[c]] = "alive")

\* A call that could still have an effect.
Working(c) == Live(c) \/ (phase[c] # "faulted" /\ ~Clean(c))

\* A call that runs in a child and is not cancelled has no output of an attempt
\* that has not come to an end: none is left by a refusal.
NothingOld(c) ==
    call[c].spawns /\ ~marked[c] =>
        /\ \A a \in Attempt : a > attempt[c] => output[c][a] = "none"
        /\ doing[c] = Run => output[c][attempt[c]] = "none"
        /\ doing[c].step \in {"publish", "commit"} => attempt[c] > 0

\* When the child of a call is known to be gone.
Left(c) ==
    /\ ~call[c].spawns => \A a \in Attempt : child[c][a] = "none"
    /\ attempt[c] > 0 /\ ~marked[c] /\ output[c][attempt[c]] # "none" => Clean(c)
    /\ doing[c].step \in {"publish", "commit"} /\ doing[c].ending # "aborted" => Clean(c)
    /\ phase[c] \in Ending /\ ~stopping => Clean(c)

\* Only a stopped run has marked calls, and only a marked call is aborted.
Stopped(c) ==
    /\ marked[c] => stopping
    /\ doing[c].step \in {"publish", "commit"} /\ doing[c].ending = "aborted" => marked[c]

Tidy(c) == NothingOld(c) /\ Left(c) /\ Stopped(c)

\* A call that is not read-only has the round to itself.
OneGroup ==
    \A c, d \in Call : c # d /\ ~call[c].parallel => ~(Working(c) /\ Working(d))

BInv == IInv /\ (\A c \in Call : Tidy(c)) /\ OneGroup

\* What the theorem assumes of a round.
Unasked == \A round \in Rounds, c \in Call :
               round[c].spawns => ~round[c].refusable /\ ~round[c].outward

\* A step of call c, or of nobody in particular: nobody becomes able to have an effect.
KeptBy(c) ==
    /\ Tidy(c)'
    /\ Working(c)' => Working(c)
    /\ \A d \in Call : d # c => SameFor(d)
    /\ stopping' = stopping

\* Calls that a step leaves alone.
LEMMA TidySame ==
    ASSUME NEW d \in Call, Tidy(d), SameFor(d), stopping => stopping'
    PROVE  Tidy(d)' /\ (Working(d)' => Working(d))
  BY DEF SameFor, Tidy, NothingOld, Left, Stopped, Clean, Working, Live

\* What is known of a call.
LEMMA TidyFacts ==
    ASSUME BInv, NEW c \in Call
    PROVE  Tidy(c) /\ CallOK(c) /\ call[c] \in Shape
  BY Ranges, RoundsAssumption DEF BInv, IInv, TypeOK

\* A refusal, or a wait that ends without an approval, is of a call that runs in no child.
LEMMA KeptUnrun ==
    ASSUME BInv, NEW c \in Call, SettleUnrun(c), Invoked(c), ~call[c].spawns, attempt[c] = 0
    PROVE  KeptBy(c)
  <1>1. /\ \A d \in Call : d # c => SameFor(d)
        /\ stopping' = stopping
    BY DEF BInv, IInv, TypeOK, SameFor, SettleUnrun, Invoked
  <1>2. NothingOld(c)'
    BY TidyFacts, Ranges, StepKinds, Kinds, OutputSteps, SMTT(30)
       DEF BInv, IInv, TypeOK, Tidy, NothingOld, Left, Stopped, Clean, CallOK, Phased, Live,
           Attempt, SettleUnrun, Invoked
  <1>3. Left(c)'
    BY TidyFacts, Ranges, StepKinds, Kinds, OutputSteps, SMTT(30)
       DEF BInv, IInv, TypeOK, Tidy, NothingOld, Left, Stopped, Clean, CallOK, Phased, Live,
           Permitted, Over, Ending, Attempt, SettleUnrun, Invoked
  <1>4. Stopped(c)'
    BY TidyFacts, Ranges, StepKinds, Kinds, OutputSteps, SMTT(30)
       DEF BInv, IInv, TypeOK, Tidy, Stopped, SettleUnrun, Invoked
  <1>5. Working(c)' => Working(c)
    BY TidyFacts, Ranges, StepKinds, Kinds, SMTT(30)
       DEF BInv, IInv, TypeOK, Working, Tidy, Left, Clean, CallOK, Phased, Live, Over, Ending,
           SettleUnrun, Invoked
  <1> QED
    BY <1>1, <1>2, <1>3, <1>4, <1>5 DEF KeptBy, Tidy

\* A call that is to be asked about.
LEMMA KeptAsk ==
    ASSUME BInv, NEW c \in Call, Ask(c)
    PROVE  KeptBy(c)
  <1>1. /\ \A d \in Call : d # c => SameFor(d)
        /\ stopping' = stopping
    BY DEF BInv, IInv, TypeOK, SameFor, Ask, Invoked
  <1>2. NothingOld(c)'
    BY TidyFacts, Ranges, StepKinds, Kinds, OutputSteps, SMTT(30)
       DEF BInv, IInv, TypeOK, Tidy, NothingOld, Left, Stopped, Clean, CallOK, Phased, Live,
           Attempt, Ask, Invoked
  <1>3. Left(c)'
    BY TidyFacts, Ranges, StepKinds, Kinds, OutputSteps, SMTT(30)
       DEF BInv, IInv, TypeOK, Tidy, NothingOld, Left, Stopped, Clean, CallOK, Phased, Live,
           Permitted, Over, Ending, Attempt, Ask, Invoked
  <1>4. Stopped(c)'
    BY TidyFacts, Ranges, StepKinds, Kinds, OutputSteps, SMTT(30)
       DEF BInv, IInv, TypeOK, Tidy, Stopped, Ask, Invoked
  <1>5. Working(c)' => Working(c)
    BY TidyFacts, Ranges, StepKinds, Kinds, SMTT(30)
       DEF BInv, IInv, TypeOK, Working, Tidy, Left, Clean, CallOK, Phased, Live, Over, Ending,
           Ask, Invoked
  <1> QED
    BY <1>1, <1>2, <1>3, <1>4, <1>5 DEF KeptBy, Tidy

\* The intent finds no output of the attempt it begins.
LEMMA KeptBegin ==
    ASSUME BInv, NEW c \in Call, Begin(c), Invoked(c), attempt[c] = 0
    PROVE  KeptBy(c)
  <1>1. /\ \A d \in Call : d # c => SameFor(d)
        /\ stopping' = stopping
    BY DEF BInv, IInv, TypeOK, SameFor, Begin, Invoked
  <1>2. NothingOld(c)'
    BY TidyFacts, Ranges, StepKinds, Kinds, OutputSteps, SMTT(30)
       DEF BInv, IInv, TypeOK, Tidy, NothingOld, Left, Stopped, Clean, CallOK, Phased, Live,
           Attempt, Begin, Invoked
  <1>3. Left(c)'
    BY TidyFacts, Ranges, StepKinds, Kinds, OutputSteps, SMTT(30)
       DEF BInv, IInv, TypeOK, Tidy, NothingOld, Left, Stopped, Clean, CallOK, Phased, Live,
           Permitted, Over, Ending, Attempt, Begin, Invoked
  <1>4. Stopped(c)'
    BY TidyFacts, Ranges, StepKinds, Kinds, OutputSteps, SMTT(30)
       DEF BInv, IInv, TypeOK, Tidy, Stopped, Begin, Invoked
  <1>5. Working(c)' => Working(c)
    BY TidyFacts, Ranges, StepKinds, Kinds, SMTT(30)
       DEF BInv, IInv, TypeOK, Working, Tidy, Left, Clean, CallOK, Phased, Live, Over, Ending,
           Begin, Invoked
  <1> QED
    BY <1>1, <1>2, <1>3, <1>4, <1>5 DEF KeptBy, Tidy

\* The effect starts while nothing is published of its attempt.
LEMMA KeptStart ==
    ASSUME BInv, NEW c \in Call, StartEffect(c)
    PROVE  KeptBy(c)
  <1>1. /\ \A d \in Call : d # c => SameFor(d)
        /\ stopping' = stopping
    BY DEF BInv, IInv, TypeOK, SameFor, StartEffect
  <1>2. NothingOld(c)'
    BY TidyFacts, Ranges, StepKinds, Kinds, OutputSteps, SMTT(30)
       DEF BInv, IInv, TypeOK, Tidy, NothingOld, Left, Stopped, Clean, CallOK, Phased, Live,
           Attempt, StartEffect
  <1>3. Left(c)'
    BY TidyFacts, Ranges, StepKinds, Kinds, OutputSteps, SMTT(30)
       DEF BInv, IInv, TypeOK, Tidy, NothingOld, Left, Stopped, Clean, CallOK, Phased, Live,
           Permitted, Over, Ending, Attempt, StartEffect
  <1>4. Stopped(c)'
    BY TidyFacts, Ranges, StepKinds, Kinds, OutputSteps, SMTT(30)
       DEF BInv, IInv, TypeOK, Tidy, Stopped, StartEffect
  <1>5. Working(c)' => Working(c)
    BY TidyFacts, Ranges, StepKinds, Kinds, SMTT(30)
       DEF BInv, IInv, TypeOK, Working, Tidy, Left, Clean, CallOK, Phased, Live, Over, Ending,
           StartEffect
  <1> QED
    BY <1>1, <1>2, <1>3, <1>4, <1>5 DEF KeptBy, Tidy

\* The slot names the child while nothing is published of its attempt.
LEMMA KeptRecord ==
    ASSUME BInv, NEW c \in Call, RecordChild(c)
    PROVE  KeptBy(c)
  <1>1. /\ \A d \in Call : d # c => SameFor(d)
        /\ stopping' = stopping
    BY DEF BInv, IInv, TypeOK, SameFor, RecordChild
  <1>2. NothingOld(c)'
    BY TidyFacts, Ranges, StepKinds, Kinds, OutputSteps, SMTT(30)
       DEF BInv, IInv, TypeOK, Tidy, NothingOld, Left, Stopped, Clean, CallOK, Phased, Live,
           Attempt, RecordChild
  <1>3. Left(c)'
    BY TidyFacts, Ranges, StepKinds, Kinds, OutputSteps, SMTT(30)
       DEF BInv, IInv, TypeOK, Tidy, NothingOld, Left, Stopped, Clean, CallOK, Phased, Live,
           Permitted, Over, Ending, Attempt, RecordChild
  <1>4. Stopped(c)'
    BY TidyFacts, Ranges, StepKinds, Kinds, OutputSteps, SMTT(30)
       DEF BInv, IInv, TypeOK, Tidy, Stopped, RecordChild
  <1>5. Working(c)' => Working(c)
    BY TidyFacts, Ranges, StepKinds, Kinds, SMTT(30)
       DEF BInv, IInv, TypeOK, Working, Tidy, Left, Clean, CallOK, Phased, Live, Over, Ending,
           RecordChild
  <1> QED
    BY <1>1, <1>2, <1>3, <1>4, <1>5 DEF KeptBy, Tidy

\* A call that has come to an end has left no child.
LEMMA KeptEnd ==
    ASSUME BInv, NEW c \in Call, EndEffect(c)
    PROVE  KeptBy(c)
  <1>1. /\ \A d \in Call : d # c => SameFor(d)
        /\ stopping' = stopping
    BY DEF BInv, IInv, TypeOK, SameFor, EndEffect, Reaped
  <1>2. NothingOld(c)'
    BY TidyFacts, Ranges, StepKinds, Kinds, OutputSteps, SMTT(30)
       DEF BInv, IInv, TypeOK, Tidy, NothingOld, Left, Stopped, Clean, CallOK, Phased, Live,
           Attempt, EndEffect, Reaped
  <1>3. Left(c)'
    BY TidyFacts, Ranges, StepKinds, Kinds, OutputSteps, SMTT(30)
       DEF BInv, IInv, TypeOK, Tidy, NothingOld, Left, Stopped, Clean, CallOK, Phased, Live,
           Permitted, Over, Ending, Attempt, EndEffect, Reaped
  <1>4. Stopped(c)'
    BY TidyFacts, Ranges, StepKinds, Kinds, OutputSteps, SMTT(30)
       DEF BInv, IInv, TypeOK, Tidy, Stopped, EndEffect, Reaped
  <1>5. Working(c)' => Working(c)
    BY TidyFacts, Ranges, StepKinds, Kinds, SMTT(30)
       DEF BInv, IInv, TypeOK, Working, Tidy, Left, Clean, CallOK, Phased, Live, Over, Ending,
           EndEffect, Reaped
  <1> QED
    BY <1>1, <1>2, <1>3, <1>4, <1>5 DEF KeptBy, Tidy

\* A call that is stopped by the host has left no child.
LEMMA KeptTimeOut ==
    ASSUME BInv, NEW c \in Call, TimeOut(c)
    PROVE  KeptBy(c)
  <1>1. /\ \A d \in Call : d # c => SameFor(d)
        /\ stopping' = stopping
    BY DEF BInv, IInv, TypeOK, SameFor, TimeOut, Reaped
  <1>2. NothingOld(c)'
    BY TidyFacts, Ranges, StepKinds, Kinds, OutputSteps, SMTT(30)
       DEF BInv, IInv, TypeOK, Tidy, NothingOld, Left, Stopped, Clean, CallOK, Phased, Live,
           Attempt, TimeOut, Reaped
  <1>3. Left(c)'
    BY TidyFacts, Ranges, StepKinds, Kinds, OutputSteps, SMTT(30)
       DEF BInv, IInv, TypeOK, Tidy, NothingOld, Left, Stopped, Clean, CallOK, Phased, Live,
           Permitted, Over, Ending, Attempt, TimeOut, Reaped
  <1>4. Stopped(c)'
    BY TidyFacts, Ranges, StepKinds, Kinds, OutputSteps, SMTT(30)
       DEF BInv, IInv, TypeOK, Tidy, Stopped, TimeOut, Reaped
  <1>5. Working(c)' => Working(c)
    BY TidyFacts, Ranges, StepKinds, Kinds, SMTT(30)
       DEF BInv, IInv, TypeOK, Working, Tidy, Left, Clean, CallOK, Phased, Live, Over, Ending,
           TimeOut, Reaped
  <1> QED
    BY <1>1, <1>2, <1>3, <1>4, <1>5 DEF KeptBy, Tidy

\* What is published of a call that is not cancelled finds its child gone.
LEMMA KeptPublish ==
    ASSUME BInv, NEW c \in Call, PublishOutput(c)
    PROVE  KeptBy(c)
  <1>1. /\ \A d \in Call : d # c => SameFor(d)
        /\ stopping' = stopping
    BY DEF BInv, IInv, TypeOK, SameFor, PublishOutput, Directory
  <1>2. NothingOld(c)'
    BY TidyFacts, Ranges, StepKinds, Kinds, OutputSteps, SMTT(30)
       DEF BInv, IInv, TypeOK, Tidy, NothingOld, Left, Stopped, Clean, CallOK, Phased, Live,
           Attempt, PublishOutput, Directory
  <1>3. Left(c)'
    BY TidyFacts, Ranges, StepKinds, Kinds, OutputSteps, SMTT(30)
       DEF BInv, IInv, TypeOK, Tidy, NothingOld, Left, Stopped, Clean, CallOK, Phased, Live,
           Permitted, Over, Ending, Attempt, PublishOutput, Directory
  <1>4. Stopped(c)'
    <2>1. doing[c].body \in Body /\ doing[c].ending \in Ending
      BY Ranges, StepKinds DEF BInv, PublishOutput
    <2>2. doing'[c] = Commit(doing[c].body, doing[c].ending) /\ marked' = marked
          /\ doing[c].step = "publish"
      BY DEF BInv, IInv, TypeOK, PublishOutput
    <2>3. doing'[c].ending = doing[c].ending
      BY <2>1, <2>2, OutputSteps
    <2> QED
      BY <1>1, <2>2, <2>3, TidyFacts DEF Tidy, Stopped
  <1>5. Working(c)' => Working(c)
    BY TidyFacts, Ranges, StepKinds, Kinds, SMTT(30)
       DEF BInv, IInv, TypeOK, Working, Tidy, Left, Clean, CallOK, Phased, Live, Over, Ending,
           PublishOutput, Directory
  <1> QED
    BY <1>1, <1>2, <1>3, <1>4, <1>5 DEF KeptBy, Tidy

\* A call ends without a child, or its run is stopped.
LEMMA KeptCommit ==
    ASSUME BInv, NEW c \in Call, CommitResult(c)
    PROVE  KeptBy(c)
  <1>1. /\ \A d \in Call : d # c => SameFor(d)
        /\ stopping' = stopping
    BY DEF BInv, IInv, TypeOK, SameFor, CommitResult
  <1>2. NothingOld(c)'
    BY TidyFacts, Ranges, StepKinds, Kinds, OutputSteps, SMTT(30)
       DEF BInv, IInv, TypeOK, Tidy, NothingOld, Left, Stopped, Clean, CallOK, Phased, Live,
           Attempt, CommitResult
  <1>3. Left(c)'
    BY TidyFacts, Ranges, StepKinds, Kinds, OutputSteps, SMTT(30)
       DEF BInv, IInv, TypeOK, Tidy, NothingOld, Left, Stopped, Clean, CallOK, Phased, Live,
           Permitted, Over, Ending, Attempt, CommitResult
  <1>4. Stopped(c)'
    BY TidyFacts, Ranges, StepKinds, Kinds, OutputSteps, SMTT(30)
       DEF BInv, IInv, TypeOK, Tidy, Stopped, CommitResult
  <1>5. Working(c)' => Working(c)
    BY TidyFacts, Ranges, StepKinds, Kinds, SMTT(30)
       DEF BInv, IInv, TypeOK, Working, Tidy, Left, Clean, CallOK, Phased, Live, Over, Ending,
           CommitResult
  <1> QED
    BY <1>1, <1>2, <1>3, <1>4, <1>5 DEF KeptBy, Tidy

\* A call that is given up.
LEMMA KeptFault ==
    ASSUME BInv, NEW c \in Call, Fault(c)
    PROVE  KeptBy(c)
  <1>1. /\ \A d \in Call : d # c => SameFor(d)
        /\ stopping' = stopping
    BY DEF BInv, IInv, TypeOK, SameFor, Fault, Invoked
  <1>2. NothingOld(c)'
    BY TidyFacts, Ranges, StepKinds, Kinds, OutputSteps, SMTT(30)
       DEF BInv, IInv, TypeOK, Tidy, NothingOld, Left, Stopped, Clean, CallOK, Phased, Live,
           Attempt, Fault, Invoked
  <1>3. Left(c)'
    BY TidyFacts, Ranges, StepKinds, Kinds, OutputSteps, SMTT(30)
       DEF BInv, IInv, TypeOK, Tidy, NothingOld, Left, Stopped, Clean, CallOK, Phased, Live,
           Permitted, Over, Ending, Attempt, Fault, Invoked
  <1>4. Stopped(c)'
    BY TidyFacts, Ranges, StepKinds, Kinds, OutputSteps, SMTT(30)
       DEF BInv, IInv, TypeOK, Tidy, Stopped, Fault, Invoked
  <1>5. Working(c)' => Working(c)
    BY TidyFacts, Ranges, StepKinds, Kinds, SMTT(30)
       DEF BInv, IInv, TypeOK, Working, Tidy, Left, Clean, CallOK, Phased, Live, Over, Ending,
           Fault, Invoked
  <1> QED
    BY <1>1, <1>2, <1>3, <1>4, <1>5 DEF KeptBy, Tidy

\* A call is marked when its run is stopped.
LEMMA KeptAbort ==
    ASSUME BInv, NEW c \in Call, Abort(c)
    PROVE  KeptBy(c)
  <1>1. /\ \A d \in Call : d # c => SameFor(d)
        /\ stopping' = stopping
    BY DEF BInv, IInv, TypeOK, SameFor, Abort
  <1>2. NothingOld(c)'
    BY TidyFacts, Ranges, StepKinds, Kinds, OutputSteps, SMTT(30)
       DEF BInv, IInv, TypeOK, Tidy, NothingOld, Left, Stopped, Clean, CallOK, Phased, Live,
           Attempt, Abort
  <1>3. Left(c)'
    BY TidyFacts, Ranges, StepKinds, Kinds, OutputSteps, SMTT(30)
       DEF BInv, IInv, TypeOK, Tidy, NothingOld, Left, Stopped, Clean, CallOK, Phased, Live,
           Permitted, Over, Ending, Attempt, Abort
  <1>4. Stopped(c)'
    BY TidyFacts, Ranges, StepKinds, Kinds, OutputSteps, SMTT(30)
       DEF BInv, IInv, TypeOK, Tidy, Stopped, Abort
  <1>5. Working(c)' => Working(c)
    BY TidyFacts, Ranges, StepKinds, Kinds, SMTT(30)
       DEF BInv, IInv, TypeOK, Working, Tidy, Left, Clean, CallOK, Phased, Live, Over, Ending, Abort
  <1> QED
    BY <1>1, <1>2, <1>3, <1>4, <1>5 DEF KeptBy, Tidy

\* A cancelled invocation ends.
LEMMA KeptCancelled ==
    ASSUME BInv, NEW c \in Call, Cancelled(c)
    PROVE  KeptBy(c)
  <1>1. /\ \A d \in Call : d # c => SameFor(d)
        /\ stopping' = stopping
    BY DEF BInv, IInv, TypeOK, SameFor, Cancelled, Reaped
  <1>2. NothingOld(c)'
    BY TidyFacts, Ranges, StepKinds, Kinds, OutputSteps, SMTT(30)
       DEF BInv, IInv, TypeOK, Tidy, NothingOld, Left, Stopped, Clean, CallOK, Phased, Live,
           Attempt, Cancelled, Reaped
  <1>3. Left(c)'
    BY TidyFacts, Ranges, StepKinds, Kinds, OutputSteps, SMTT(30)
       DEF BInv, IInv, TypeOK, Tidy, NothingOld, Left, Stopped, Clean, CallOK, Phased, Live,
           Permitted, Over, Ending, Attempt, Cancelled, Reaped
  <1>4. Stopped(c)'
    BY TidyFacts, Ranges, StepKinds, Kinds, OutputSteps, SMTT(30)
       DEF BInv, IInv, TypeOK, Tidy, Stopped, Cancelled, Reaped
  <1>5. Working(c)' => Working(c)
    BY TidyFacts, Ranges, StepKinds, Kinds, SMTT(30)
       DEF BInv, IInv, TypeOK, Working, Tidy, Left, Clean, CallOK, Phased, Live, Over, Ending,
           Cancelled, Reaped
  <1> QED
    BY <1>1, <1>2, <1>3, <1>4, <1>5 DEF KeptBy, Tidy

\* The abort handler speaks of a marked call only.
LEMMA KeptHandler ==
    ASSUME BInv, NEW c \in Call, AbortHandler(c)
    PROVE  KeptBy(c)
  <1>1. /\ \A d \in Call : d # c => SameFor(d)
        /\ stopping' = stopping
    BY DEF BInv, IInv, TypeOK, SameFor, AbortHandler
  <1>2. NothingOld(c)'
    BY TidyFacts, Ranges, StepKinds, Kinds, OutputSteps, SMTT(30)
       DEF BInv, IInv, TypeOK, Tidy, NothingOld, Left, Stopped, Clean, CallOK, Phased, Live,
           Attempt, AbortHandler
  <1>3. Left(c)'
    BY TidyFacts, Ranges, StepKinds, Kinds, OutputSteps, SMTT(30)
       DEF BInv, IInv, TypeOK, Tidy, NothingOld, Left, Stopped, Clean, CallOK, Phased, Live,
           Permitted, Over, Ending, Attempt, AbortHandler
  <1>4. Stopped(c)'
    BY TidyFacts, Ranges, StepKinds, Kinds, OutputSteps, SMTT(30)
       DEF BInv, IInv, TypeOK, Tidy, Stopped, AbortHandler
  <1>5. Working(c)' => Working(c)
    BY TidyFacts, Ranges, StepKinds, Kinds, SMTT(30)
       DEF BInv, IInv, TypeOK, Working, Tidy, Left, Clean, CallOK, Phased, Live, Over, Ending,
           AbortHandler
  <1> QED
    BY <1>1, <1>2, <1>3, <1>4, <1>5 DEF KeptBy, Tidy

\* An output that is found is of an attempt whose child is gone.
LEMMA KeptReuse ==
    ASSUME BInv, NEW c \in Call, Reuse(c), Invoked(c), phase[c] \in {"execute", "probe"}
    PROVE  KeptBy(c)
  <1>1. /\ \A d \in Call : d # c => SameFor(d)
        /\ stopping' = stopping
    BY DEF BInv, IInv, TypeOK, SameFor, Reuse, Found, Invoked
  <1>2. NothingOld(c)'
    BY TidyFacts, Ranges, StepKinds, Kinds, OutputSteps, SMTT(30)
       DEF BInv, IInv, TypeOK, Tidy, NothingOld, Left, Stopped, Clean, CallOK, Phased, Live,
           Attempt, Reuse, Found, Invoked
  <1>3. Left(c)'
    BY TidyFacts, Ranges, StepKinds, Kinds, OutputSteps, SMTT(30)
       DEF BInv, IInv, TypeOK, Tidy, NothingOld, Left, Stopped, Clean, CallOK, Phased, Live,
           Permitted, Over, Ending, Attempt, Reuse, Found, Invoked
  <1>4. Stopped(c)'
    <2>1. output[c][attempt[c]] \in Body
      BY TidyFacts, Ranges DEF BInv, Reuse, Found, CallOK, Phased
    <2>2. doing'[c] = Commit(output[c][attempt[c]], "completed") /\ marked' = marked
      BY DEF BInv, IInv, TypeOK, Reuse
    <2>3. doing'[c].ending = "completed"
      BY <2>1, <2>2, OutputSteps, Kinds
    <2> QED
      BY <1>1, <2>2, <2>3, TidyFacts DEF Tidy, Stopped
  <1>5. Working(c)' => Working(c)
    BY TidyFacts, Ranges, StepKinds, Kinds, SMTT(30)
       DEF BInv, IInv, TypeOK, Working, Tidy, Left, Clean, CallOK, Phased, Live, Over, Ending,
           Reuse, Found, Invoked
  <1> QED
    BY <1>1, <1>2, <1>3, <1>4, <1>5 DEF KeptBy, Tidy

\* The attempt after one has no child that the slot names.
LEMMA KeptRerun ==
    ASSUME BInv, NEW c \in Call, Rerun(c), Invoked(c), phase[c] \in {"execute", "probe"}
    PROVE  KeptBy(c)
  <1>1. /\ \A d \in Call : d # c => SameFor(d)
        /\ stopping' = stopping
    BY DEF BInv, IInv, TypeOK, SameFor, Rerun, Invoked
  <1>2. NothingOld(c)'
    <2>1. /\ attempt'[c] = attempt[c] + 1 /\ doing'[c] = Run
          /\ call' = call /\ marked' = marked /\ output' = output /\ ~marked[c]
      BY DEF BInv, IInv, TypeOK, Rerun, Invoked
    <2>2. attempt[c] \in Nat /\ attempt[c] <= crashes /\ crashes <= MaxCrashes
          /\ crashes \in Nat /\ MaxCrashes \in Nat
      BY TidyFacts, Ranges DEF BInv, IInv, TypeOK, CallOK, Counted, Invoked
    <2>3. attempt[c] + 1 \in Attempt /\ attempt[c] + 1 > attempt[c]
      BY <2>2 DEF Attempt
    <2>4. \A a \in Attempt : a > attempt[c] + 1 => a > attempt[c]
      BY <2>2 DEF Attempt
    <2>5. Run.step = "run"
      BY StepKinds
    <2>6. ASSUME call'[c].spawns, ~marked'[c]
          PROVE  /\ \A a \in Attempt : a > attempt'[c] => output'[c][a] = "none"
                 /\ doing'[c] = Run => output'[c][attempt'[c]] = "none"
                 /\ doing'[c].step \in {"publish", "commit"} => attempt'[c] > 0
      <3>1. call[c].spawns /\ ~marked[c]
        BY <2>1, <2>6
      <3>2. \A a \in Attempt : a > attempt[c] => output[c][a] = "none"
        BY <3>1, TidyFacts DEF Tidy, NothingOld
      <3>3. \A a \in Attempt : a > attempt'[c] => output'[c][a] = "none"
        BY <2>1, <2>4, <3>2
      <3>4. output'[c][attempt'[c]] = "none"
        BY <2>1, <2>3, <3>2
      <3>5. doing'[c].step \notin {"publish", "commit"}
        BY <2>1, <2>5
      <3> QED
        BY <3>3, <3>4, <3>5
    <2> QED
      BY <2>6 DEF NothingOld
  <1>3. Left(c)'
    BY TidyFacts, Ranges, StepKinds, Kinds, OutputSteps, SMTT(30)
       DEF BInv, IInv, TypeOK, Tidy, NothingOld, Left, Stopped, Clean, CallOK, Phased, Live,
           Permitted, Over, Ending, Attempt, Rerun, Invoked
  <1>4. Stopped(c)'
    BY TidyFacts, Ranges, StepKinds, Kinds, OutputSteps, SMTT(30)
       DEF BInv, IInv, TypeOK, Tidy, Stopped, Rerun, Invoked
  <1>5. Working(c)' => Working(c)
    BY TidyFacts, Ranges, StepKinds, Kinds, SMTT(30)
       DEF BInv, IInv, TypeOK, Working, Tidy, Left, Clean, CallOK, Phased, Live, Over, Ending,
           Rerun, Invoked
  <1> QED
    BY <1>1, <1>2, <1>3, <1>4, <1>5 DEF KeptBy, Tidy

\* A call is interrupted when its child is gone or was never named.
LEMMA KeptInterrupted ==
    ASSUME BInv, NEW c \in Call, Interrupted(c), Invoked(c), Clean(c), phase[c] \in {"execute",
           "probe"}
    PROVE  KeptBy(c)
  <1>1. /\ \A d \in Call : d # c => SameFor(d)
        /\ stopping' = stopping
    BY DEF BInv, IInv, TypeOK, SameFor, Interrupted, Invoked
  <1>2. NothingOld(c)'
    BY TidyFacts, Ranges, StepKinds, Kinds, OutputSteps, SMTT(30)
       DEF BInv, IInv, TypeOK, Tidy, NothingOld, Left, Stopped, Clean, CallOK, Phased, Live,
           Attempt, Interrupted, Invoked
  <1>3. Left(c)'
    BY TidyFacts, Ranges, StepKinds, Kinds, OutputSteps, SMTT(30)
       DEF BInv, IInv, TypeOK, Tidy, NothingOld, Left, Stopped, Clean, CallOK, Phased, Live,
           Permitted, Over, Ending, Attempt, Interrupted, Invoked
  <1>4. Stopped(c)'
    BY TidyFacts, Ranges, StepKinds, Kinds, OutputSteps, SMTT(30)
       DEF BInv, IInv, TypeOK, Tidy, Stopped, Interrupted, Invoked
  <1>5. Working(c)' => Working(c)
    BY TidyFacts, Ranges, StepKinds, Kinds, SMTT(30)
       DEF BInv, IInv, TypeOK, Working, Tidy, Left, Clean, CallOK, Phased, Live, Over, Ending,
           Interrupted, Invoked
  <1> QED
    BY <1>1, <1>2, <1>3, <1>4, <1>5 DEF KeptBy, Tidy

\* A child that is watched.
LEMMA KeptWatch ==
    ASSUME BInv, NEW c \in Call, Watch(c)
    PROVE  KeptBy(c)
  <1>1. /\ \A d \in Call : d # c => SameFor(d)
        /\ stopping' = stopping
    BY DEF BInv, IInv, TypeOK, SameFor, Watch, Invoked
  <1>2. NothingOld(c)'
    BY TidyFacts, Ranges, StepKinds, Kinds, OutputSteps, SMTT(30)
       DEF BInv, IInv, TypeOK, Tidy, NothingOld, Left, Stopped, Clean, CallOK, Phased, Live,
           Attempt, Watch, Invoked
  <1>3. Left(c)'
    BY TidyFacts, Ranges, StepKinds, Kinds, OutputSteps, SMTT(30)
       DEF BInv, IInv, TypeOK, Tidy, NothingOld, Left, Stopped, Clean, CallOK, Phased, Live,
           Permitted, Over, Ending, Attempt, Watch, Invoked
  <1>4. Stopped(c)'
    BY TidyFacts, Ranges, StepKinds, Kinds, OutputSteps, SMTT(30)
       DEF BInv, IInv, TypeOK, Tidy, Stopped, Watch, Invoked
  <1>5. Working(c)' => Working(c)
    BY TidyFacts, Ranges, StepKinds, Kinds, SMTT(30)
       DEF BInv, IInv, TypeOK, Working, Tidy, Left, Clean, CallOK, Phased, Live, Over, Ending,
           Watch, Invoked
  <1> QED
    BY <1>1, <1>2, <1>3, <1>4, <1>5 DEF KeptBy, Tidy

\* A child that outlived its process ends.
LEMMA KeptChild ==
    ASSUME BInv, NEW c \in Call, NEW a \in Attempt, ChildExits(c, a)
    PROVE  KeptBy(c)
  <1>1. /\ \A d \in Call : d # c => SameFor(d)
        /\ stopping' = stopping
    BY DEF BInv, IInv, TypeOK, SameFor, ChildExits
  <1>2. /\ child[c] \in [Attempt -> {"none", "alive", "gone"}]
        /\ child'[c] = [child[c] EXCEPT ![a] = "gone"] /\ child[c][a] = "alive"
        /\ call'[c] = call[c] /\ phase'[c] = phase[c] /\ attempt'[c] = attempt[c]
        /\ pid'[c] = pid[c] /\ marked'[c] = marked[c] /\ output'[c] = output[c]
        /\ doing'[c] = doing[c]
    BY Ranges DEF BInv, IInv, TypeOK, ChildExits
  <1>3. \A b : child'[c][b] = "alive" => child[c][b] = "alive"
    BY <1>2
  <1>4. call[c].spawns
    BY <1>2, TidyFacts DEF Tidy, Left
  <1>5. Clean(c) => Clean(c)'
    BY <1>2, <1>3 DEF Clean
  <1>6. NothingOld(c)' /\ Left(c)' /\ Stopped(c)'
    BY <1>1, <1>2, <1>4, <1>5, TidyFacts DEF Tidy, NothingOld, Left, Stopped
  <1>7. Working(c)' => Working(c)
    BY <1>2, <1>5 DEF Working, Live
  <1> QED
    BY <1>1, <1>6, <1>7 DEF KeptBy, Tidy

\* What the harness does for a call.
LEMMA KeptProgress ==
    ASSUME BInv, Unasked, NEW c \in Call, Progress(c)
    PROVE  KeptBy(c)
  <1>1. /\ CallOK(c) /\ Tidy(c)
        /\ call[c].spawns => ~call[c].refusable /\ ~call[c].outward
        /\ phase[c] \in {"call", "confirm"} => attempt[c] = 0
        /\ phase[c] = "confirm" => call[c].outward
    <2>1. call[c].spawns => ~call[c].refusable /\ ~call[c].outward
      BY DEF BInv, IInv, TypeOK, Unasked
    <2> QED
      BY <2>1, TidyFacts DEF CallOK, Phased
  <1>2. CASE Refuse(c)
    BY <1>1, <1>2, KeptUnrun DEF Refuse
  <1>3. CASE Accept(c)
    BY <1>1, <1>3, KeptBegin DEF Accept
  <1>4. CASE Approved(c)
    BY <1>1, <1>4, KeptBegin, KeptUnrun DEF Approved
  <1>5. CASE NotApproved(c)
    BY <1>1, <1>5, KeptUnrun DEF NotApproved
  <1>6. CASE Execute(c)
    BY <1>6, KeptReuse, KeptRerun, KeptInterrupted DEF Execute, Clean
  <1>7. CASE Probe(c)
    BY <1>7, KeptReuse, KeptRerun, KeptInterrupted DEF Probe, Clean
  <1>8. CASE Ask(c) \/ StartEffect(c) \/ RecordChild(c) \/ EndEffect(c) \/ TimeOut(c)
    BY <1>8, KeptAsk, KeptStart, KeptRecord, KeptEnd, KeptTimeOut
  <1>9. CASE PublishOutput(c) \/ CommitResult(c) \/ Abort(c) \/ Cancelled(c)
    BY <1>9, KeptPublish, KeptCommit, KeptAbort, KeptCancelled
  <1>10. CASE AbortHandler(c) \/ Watch(c) \/ \E a \in Attempt : ChildExits(c, a)
    BY <1>10, KeptHandler, KeptWatch, KeptChild
  <1> QED
    BY <1>2, <1>3, <1>4, <1>5, <1>6, <1>7, <1>8, <1>9, <1>10 DEF Progress

\* A step by which no call becomes able to have an effect keeps the calls apart.
LEMMA NobodyElse ==
    ASSUME BInv, IInv', call' = call,
           \A d \in Call : Tidy(d)' /\ (Working(d)' => Working(d))
    PROVE  BInv'
  BY DEF BInv, OneGroup

\* A step of one call.
LEMMA KeptByOne ==
    ASSUME BInv, IInv', call' = call, NEW c \in Call, KeptBy(c)
    PROVE  BInv'
  <1>1. ASSUME NEW d \in Call
        PROVE  Tidy(d)' /\ (Working(d)' => Working(d))
    <2>1. Tidy(d)
      BY DEF BInv
    <2>2. CASE d = c
      BY <2>2 DEF KeptBy
    <2>3. CASE d # c
      BY <2>1, <2>3, TidySame DEF KeptBy
    <2> QED
      BY <2>2, <2>3
  <1> QED
    BY <1>1, NobodyElse

\* A group is created when no call of the round could still have an effect.
LEMMA KeptGroup ==
    ASSUME BInv, IInv', CreateGroup
    PROVE  BInv'
  <1>1. /\ call' = call /\ attempt' = attempt /\ pid' = pid /\ marked' = marked
        /\ output' = output /\ child' = child /\ doing' = doing /\ stopping' = stopping
        /\ phase' = [c \in Call |-> IF c \in Group THEN "call" ELSE phase[c]]
        /\ ~stopping
    BY DEF CreateGroup
  <1>2. ASSUME NEW c \in Call
        PROVE  ~Working(c) /\ Clean(c)' = Clean(c)
    <2>1. Tidy(c) /\ CallOK(c) /\ phase[c] \in {"listed"} \cup Over
      BY TidyFacts DEF CreateGroup, Live
    <2>2. phase[c] = "listed" => Clean(c)
      BY <2>1, Ranges DEF CallOK, Phased, Clean, BInv
    <2>3. phase[c] # "faulted" => Clean(c)
      BY <1>1, <2>1, <2>2 DEF Tidy, Left, Over
    <2>4. ~Live(c)
      BY DEF CreateGroup
    <2> QED
      BY <1>1, <2>3, <2>4 DEF Working, Clean
  <1>3. ASSUME NEW c \in Call
        PROVE  /\ Tidy(c)'
               /\ Working(c)' => c \in Group
    <2>1. phase'[c] = IF c \in Group THEN "call" ELSE phase[c]
      BY <1>1
    <2>2. NothingOld(c)' /\ Stopped(c)'
      BY <1>1, TidyFacts DEF Tidy, NothingOld, Stopped
    <2>3. Left(c)'
      BY <1>1, <1>2, <2>1, TidyFacts DEF Tidy, Left, Ending, Clean
    <2>4. Working(c)' => c \in Group
      BY <1>2, <2>1 DEF Working, Live
    <2> QED
      BY <2>2, <2>3, <2>4 DEF Tidy
  <1>4. ASSUME NEW c \in Group, NEW d \in Group, c # d
        PROVE  call[c].parallel
    <2>1. c \in Call /\ d \in Call /\ (c < d \/ d < c)
      BY <1>4, BoundsAssumption DEF Group, Listed, Call
    <2> QED
      BY <2>1 DEF Group
  <1>5. OneGroup'
    BY <1>1, <1>3, <1>4 DEF OneGroup
  <1> QED
    BY <1>3, <1>5 DEF BInv

\* The calls that were never created are aborted with their run.
LEMMA KeptAbortListed ==
    ASSUME BInv, IInv', AbortListed
    PROVE  BInv'
  <1>1. ASSUME NEW c \in Call
        PROVE  Tidy(c)' /\ (Working(c)' => Working(c))
    <2>1. /\ call' = call /\ attempt' = attempt /\ pid' = pid /\ marked' = marked
          /\ output' = output /\ child' = child /\ doing' = doing /\ stopping' = stopping
          /\ phase'[c] = IF phase[c] = "listed" THEN "aborted" ELSE phase[c]
          /\ stopping
      BY DEF AbortListed, Listed
    <2>2. Tidy(c) /\ CallOK(c) /\ Clean(c)' = Clean(c)
      BY <2>1, TidyFacts DEF Clean
    <2>3. NothingOld(c)' /\ Stopped(c)' /\ Left(c)'
      BY <2>1, <2>2 DEF Tidy, NothingOld, Stopped, Left
    <2>4. Working(c)' => Working(c)
      BY <2>1, <2>2 DEF Working, Live, Over, Ending
    <2> QED
      BY <2>3, <2>4 DEF Tidy
  <1> QED
    BY <1>1, NobodyElse DEF AbortListed

\* A restart: nothing is invoked, what is recorded stays, and so do the children.
LEMMA KeptCrash ==
    ASSUME BInv, IInv', Crash
    PROVE  BInv'
  <1>1. ASSUME NEW c \in Call
        PROVE  Tidy(c)' /\ (Working(c)' => Working(c))
    <2>1. /\ call' = call /\ phase' = phase /\ attempt' = attempt /\ pid' = pid
          /\ marked' = marked /\ output' = output /\ child' = child
          /\ stopping' = stopping /\ doing'[c] = Idle
      BY DEF Crash
    <2>2. Tidy(c) /\ Clean(c)' = Clean(c)
      BY <2>1, TidyFacts DEF Clean
    <2>3. NothingOld(c)' /\ Stopped(c)' /\ Left(c)'
      BY <2>1, <2>2, StepKinds DEF Tidy, NothingOld, Stopped, Left
    <2>4. Working(c)' => Working(c)
      BY <2>1, <2>2 DEF Working, Live
    <2> QED
      BY <2>3, <2>4 DEF Tidy
  <1> QED
    BY <1>1, NobodyElse DEF Crash

\* Cards and answers, the end of a run, and steps that are none.
LEMMA KeptRest ==
    ASSUME BInv, IInv',
           \/ \E c \in Call : FindCard(c)
           \/ \E c \in Call, verdict \in {"approve", "reject"} : AnswerConfirm(c, verdict)
           \/ StopRun
           \/ UNCHANGED vars
    PROVE  BInv'
  <1>1. /\ call' = call /\ phase' = phase /\ attempt' = attempt /\ pid' = pid
        /\ marked' = marked /\ output' = output /\ child' = child /\ doing' = doing
        /\ stopping => stopping'
    BY DEF FindCard, AnswerConfirm, StopRun, vars
  <1>2. ASSUME NEW c \in Call
        PROVE  Tidy(c)' /\ (Working(c)' => Working(c))
    BY <1>1, TidyFacts DEF Tidy, NothingOld, Left, Stopped, Clean, Working, Live
  <1> QED
    BY <1>1, <1>2, NobodyElse

\* Every step keeps the calls apart.
LEMMA Apart == Unasked /\ BInv /\ [Next]_vars => BInv'
  <1> SUFFICES ASSUME Unasked, BInv, [Next]_vars PROVE BInv'
    OBVIOUS
  <1>1. IInv'
    BY Stepwise DEF BInv
  <1>2. ASSUME NEW c \in Call, Progress(c) \/ Fault(c) PROVE BInv'
    <2>1. KeptBy(c)
      BY <1>2, KeptProgress, KeptFault
    <2>2. call' = call
      BY <1>2, ZenonT(40)
         DEF Progress, Refuse, SettleUnrun, Ask, Accept, Approved, NotApproved, Begin,
             StartEffect, RecordChild, EndEffect, TimeOut, PublishOutput, CommitResult,
             Fault, Abort, Cancelled, AbortHandler, Execute, Probe, Reuse, Rerun,
             Interrupted, Watch, ChildExits
    <2> QED
      BY <1>1, <2>1, <2>2, KeptByOne
  <1>3. CASE CreateGroup \/ AbortListed \/ Crash
    BY <1>1, <1>3, KeptGroup, KeptAbortListed, KeptCrash
  <1>4. CASE \/ \E c \in Call : FindCard(c)
             \/ \E c \in Call, verdict \in {"approve", "reject"} : AnswerConfirm(c, verdict)
             \/ StopRun
             \/ UNCHANGED vars
    BY <1>1, <1>4, KeptRest
  <1> QED
    BY <1>2, <1>3, <1>4 DEF Next

\* At first nobody works.
LEMMA ApartAtFirst == Init => BInv
  <1> SUFFICES ASSUME Init PROVE BInv
    OBVIOUS
  <1>1. IInv
    BY Start
  <1>2. ASSUME NEW c \in Call
        PROVE  Tidy(c) /\ ~Working(c)
    BY StepKinds DEF Init, Tidy, NothingOld, Left, Stopped, Clean, Working, Live, Ending
  <1> QED
    BY <1>1, <1>2 DEF BInv, OneGroup

\* A call that is not read-only has the tools to itself, also after restarts and
\* cancellations (generation.rs, group_len; tool.rs, the `probe` phase), if no call that
\* runs in a child process may be refused or asked about: of such a call the output of a
\* refusal may be taken for that of its execution, while the child is at work.
THEOREM CallsKeepApart == Unasked => (Spec => []Barrier)
  <1>1. BInv => Barrier
    <2> SUFFICES ASSUME BInv, NEW c \in Call, NEW d \in Call, c # d, ~call[c].parallel
                 PROVE  ~(AtWork(c) /\ AtWork(d))
      BY DEF Barrier
    <2>1. ASSUME NEW e \in Call, AtWork(e) PROVE Working(e)
      BY <2>1, TidyFacts DEF AtWork, Working, Clean, Live, CallOK, Phased, Over, Ending
    <2> QED
      BY <2>1 DEF BInv, OneGroup
  <1>2. SUFFICES ASSUME Unasked PROVE Spec => []Barrier
    OBVIOUS
  <1>3. BInv /\ [Next]_vars => BInv'
    BY <1>2, Apart
  <1> QED
    BY <1>1, <1>3, ApartAtFirst, PTL DEF Spec

=============================================================================
