--------------------------- MODULE StructuredTasks ---------------------------
(***************************************************************************)
(* What the task engine promises the layers above it (generations, tools,  *)
(* orchestration), without schedules, invocations, definitions or          *)
(* restarts: a forest of owned tasks in which                              *)
(*   - work starts only under an owner that is active and not cancelled;   *)
(*   - an outcome is decided once and never changes;                       *)
(*   - an owner is done only when everything it owns is done;              *)
(*   - a cancellation is never taken back.                                 *)
(***************************************************************************)
CONSTANTS Task, Nobody, Outcome

VARIABLES
    phase,      \* "unborn", "active", "held" (outcome decided) or "done"
    owner,      \* the owning task, or Nobody
    cancelled,  \* the tasks whose cancellation is durable
    outcome     \* decided outcomes

vars == <<phase, owner, cancelled, outcome>>

Phase == {"unborn", "active", "held", "done"}
Undecided == "none"

Alive(p, t) == p[t] \in {"active", "held"}

Init ==
    /\ phase = [t \in Task |-> "unborn"]
    /\ owner = [t \in Task |-> Nobody]
    /\ cancelled = {}
    /\ outcome = [t \in Task |-> Undecided]

\* A step takes any set of tasks forward at once, as one commit does.
Forward(t) ==
    \/ phase'[t] = phase[t]
    \/ phase[t] = "unborn" /\ phase'[t] = "active"
    \/ phase[t] = "active" /\ phase'[t] \in {"held", "done"}
    \/ phase[t] = "held" /\ phase'[t] = "done"

StartsUnderActiveOwner(t) ==
    (phase[t] = "unborn" /\ phase'[t] = "active") =>
        \/ owner'[t] = Nobody
        \/ phase'[owner'[t]] = "active" /\ owner'[t] \notin cancelled'

EndsLast(t) ==
    (phase[t] # "done" /\ phase'[t] = "done") =>
        \A u \in Task : owner'[u] = t => ~Alive(phase', u)

KeepsItsOwner(t) == phase[t] # "unborn" => owner'[t] = owner[t]

DecidesOnce(t) ==
    /\ phase[t] \in {"held", "done"} => outcome'[t] = outcome[t]
    /\ phase'[t] \in {"held", "done"} <=> outcome'[t] # Undecided

Step ==
    /\ phase' \in [Task -> Phase]
    /\ owner' \in [Task -> Task \cup {Nobody}]
    /\ outcome' \in [Task -> Outcome \cup {Undecided}]
    /\ cancelled \subseteq cancelled'
    /\ \A t \in Task : /\ Forward(t)
                       /\ StartsUnderActiveOwner(t)
                       /\ EndsLast(t)
                       /\ KeepsItsOwner(t)
                       /\ DecidesOnce(t)

Spec == Init /\ [][Step]_vars
=============================================================================
