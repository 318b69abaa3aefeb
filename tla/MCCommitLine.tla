---------------------------- MODULE MCCommitLine ----------------------------
(* Instances of CommitLine for TLC: the callers and keys are model values. *)
EXTENDS CommitLine

\* Clients may be dropped, and submit; the engine's own callers live.
ByCaller ==
    [c \in Caller |-> IF c \in Droppers THEN {r \in Request : r.op = "submit"}
                      ELSE Request]
=============================================================================
