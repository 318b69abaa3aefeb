----------------------------- MODULE DurableLog -----------------------------
(***************************************************************************)
(* What a commit line promises: one history of commits that only grows at  *)
(* its end.  A crash may take back commits from the end, but never a       *)
(* structural commit that was acknowledged, nor anything before it.        *)
(***************************************************************************)
EXTENDS Integers, Sequences

VARIABLES
    history,   \* the commits, in order
    promised   \* how many of them no crash may take back any more

vars == <<history, promised>>

Init == history = <<>> /\ promised = 0

\* One more commit, whatever it contains.
Append1 ==
    /\ Len(history') = Len(history) + 1
    /\ SubSeq(history', 1, Len(history)) = history
    /\ UNCHANGED promised

\* A structural commit is acknowledged, and with it everything before it.
Promise ==
    /\ promised' \in (promised + 1)..Len(history)
    /\ UNCHANGED history

\* A crash takes back commits nobody was promised.
Lose ==
    /\ \E kept \in promised..Len(history) :
           history' = SubSeq(history, 1, kept)
    /\ UNCHANGED promised

Next == Append1 \/ Promise \/ Lose

Spec == Init /\ [][Next]_vars
=============================================================================
