---------------------------- MODULE MCTaskEngine ----------------------------
(* Instances of TaskEngine for TLC. *)
EXTENDS TaskEngineImplements

Foreground == [conversation : {Root}, background : {FALSE}, abandon : {FALSE}]
\* A background task that a restart abandons, or a task that owns another conversation.
BackgroundOrOwner ==
    [conversation : {Root}, background : {TRUE}, abandon : {TRUE}]
    \cup [conversation : Conversation \ {Root}, background : {FALSE}, abandon : {FALSE}]

CreateNothing == {[kind |-> "nothing"]}
CreateChild == CreateNothing \cup {[kind |-> "child"]}

Ends == {[kind |-> "none"]} \cup [kind : {"terminal"}, outcome : HandlerOutcome]
Waits == Ends \cup [kind : {"waiting"}, on : SUBSET TaskId, policy : JoinPolicy]
SettledWaits ==
    {[kind |-> "none"], [kind |-> "terminal", outcome |-> "completed"]}
    \cup [kind : {"waiting"}, on : SUBSET TaskId \ {{}}, policy : {"allSettled"}]
Repairs == SettledWaits \cup {[kind |-> "running", moved |-> "moved"]}
=============================================================================
