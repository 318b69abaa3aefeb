---------------------------- MODULE MCEventFeed ----------------------------
(* Instances of EventFeed for TLC. *)
EXTENDS EventFeed

\* An answer is one event; an input is accepted and queued.
OneThenTwo == [t \in Table |-> IF t = Submissions THEN 2 ELSE 1]
=============================================================================
