-------------------------- MODULE MCConversations ---------------------------
(* Instances of Conversations for TLC. *)
EXTENDS ConversationsImplements

Input ==
    [kind |-> "input", mode |-> "steer", head |-> "none", display |-> FALSE,
     contract |-> FALSE,
     from |-> [what |-> "client", of |-> 0, nth |-> 0]]

\* A conversation of its own, and every kind of submission; one has a request key.
Alone == [c \in {1} |-> NoConversation]
Everything ==
    [c \in {1} |->
        {Input, [Input EXCEPT !.mode = "followUp", !.from.nth = 1],
         [Input EXCEPT !.mode = "reject"],
         [Input EXCEPT !.kind = "write", !.head = "self"],
         [Input EXCEPT !.kind = "write", !.head = "at"],
         [Input EXCEPT !.kind = "write", !.display = TRUE]}]
Nothing == {}

\* A conversation and the background task it dispatches.
Family == [c \in {1, 2} |-> IF c = 1 THEN NoConversation ELSE 1]
ToTheParent == [c \in {1, 2} |-> IF c = 1 THEN {Input} ELSE {}]
Task == [Input EXCEPT !.from.what = "task"]
Contracted == {Task, [Task EXCEPT !.mode = "followUp", !.contract = TRUE]}

OneEach == {[steering |-> "oneAtATime", followUp |-> "oneAtATime"]}  \* the default
AnyMode == [steering : {"all", "oneAtATime"}, followUp : {"all", "oneAtATime"}]
=============================================================================
