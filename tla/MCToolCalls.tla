---------------------------- MODULE MCToolCalls ----------------------------
(* Instances of ToolCalls for TLC: the kinds of calls the tools of komo make. *)
EXTENDS ToolCalls

\* A shell command; an outward message; a read-only tool of an MCP server that
\* comes and goes, called by a script.
Bash ==
    [stored |-> "unsafe", look |-> {"unsafe"}, refusable |-> FALSE,
     nested |-> FALSE, outward |-> FALSE, spawns |-> TRUE, lossy |-> FALSE,
     parallel |-> FALSE]
Send ==
    [Bash EXCEPT !.look = {"safe", "unsafe", "gone"}, !.refusable = TRUE,
     !.outward = TRUE, !.spawns = FALSE]
Query ==
    [Bash EXCEPT !.stored = "safe", !.look = {"safe", "unsafe", "gone"},
     !.nested = TRUE, !.lossy = TRUE, !.parallel = TRUE]

Peek == [Query EXCEPT !.look = {"safe"}, !.nested = FALSE, !.spawns = FALSE]

\* Two calls one after the other, and two that run together.
Pairs == {<<Bash, Bash>>, <<Send, Bash>>, <<Query, Bash>>, <<Peek, Peek>>}
=============================================================================
