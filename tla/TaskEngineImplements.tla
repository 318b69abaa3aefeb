------------------------ MODULE TaskEngineImplements ------------------------
(* The task engine keeps the promise of StructuredTasks. *)
EXTENDS TaskEngine

\* The statuses of the code seen by a caller of the engine.
PhaseOf(t) ==
    CASE task[t].status = "absent" -> "unborn"
      [] task[t].status \in {"pending", "running", "waiting"} -> "active"
      [] task[t].status = "completing" -> "held"
      [] task[t].status = "terminal" -> "done"

Promise == INSTANCE StructuredTasks WITH
    Task <- TaskId, Nobody <- None, Outcome <- TaskOutcome,
    phase <- [t \in TaskId |-> PhaseOf(t)],
    owner <- [t \in TaskId |-> task[t].owner],
    cancelled <- {t \in TaskId : task[t].mark # "none"},
    outcome <- [t \in TaskId |-> task[t].outcome]

\* Refinement: every commit of the engine, concurrent, recovering or cancelling,
\* is a step the promise allows.
KeepsPromise == Promise!Spec
=============================================================================
