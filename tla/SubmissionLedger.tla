-------------------------- MODULE SubmissionLedger --------------------------
(***************************************************************************)
(* What a conversation promises to those who submit to it, without inbox,  *)
(* boundaries, queue modes, generations or callers.  A ledger holds every  *)
(* submission for good, in the order in which they were accepted:          *)
(*   - under a request key nothing is accepted twice;                      *)
(*   - within a class who comes first is served first, and nothing passes  *)
(*     a reset;                                                            *)
(*   - what was served stays where it is, what is over stays over, and     *)
(*     only what still waits can be withdrawn;                             *)
(*   - one run is live at a time, it is on one side of every reset, and    *)
(*     all its inputs end together.                                        *)
(***************************************************************************)
EXTENDS Integers, Sequences

CONSTANTS
    Reset,   \* the class of submissions that nothing passes
    Input,   \* the classes of those that are answered in a run
    NoKey

VARIABLE ledger   \* records [conversation, class, key, status, entry, run]

Over == {"done", "unanswered", "withdrawn"}
Nothing == 0

-----------------------------------------------------------------------------
(* What holds of every ledger. *)

Together(x, y) == x.conversation = y.conversation

OncePerKey(book) ==
    \A i, j \in DOMAIN book :
        Together(book[i], book[j]) /\ book[i].key = book[j].key /\ book[i].key # NoKey => i = j

\* Who has an entry was served; who waits was not; an answer is given in a run.
Served(x) ==
    /\ x.status = "waiting" => x.entry = Nothing /\ x.run = Nothing
    /\ x.status = "withdrawn" => x.class \in Input /\ x.entry = Nothing /\ x.run = Nothing
    /\ x.status = "running" => x.class \in Input
    /\ x.status \in {"running", "done"} => x.entry # Nothing
    /\ x.class \in Input /\ x.entry # Nothing => x.run # Nothing

\* y came after x, and may not be served before it.
Behind(x, y) == Together(x, y) /\ (x.class = y.class \/ x.class = Reset)

InTurn(book) ==
    \A i, j \in DOMAIN book :
        i < j /\ Behind(book[i], book[j]) /\ book[j].entry # Nothing =>
            /\ book[i].status # "waiting"
            /\ book[i].entry < book[j].entry

OneRun(book) ==
    \A i, j \in DOMAIN book :
        Together(book[i], book[j]) /\ book[j].status = "running" =>
            /\ book[i].status = "running" => book[i].run = book[j].run
            /\ book[i].class = Reset /\ book[i].status = "done" =>
                   book[i].entry < book[j].entry

Lawful(book) ==
    /\ OncePerKey(book)
    /\ \A i \in DOMAIN book : Served(book[i])
    /\ InTurn(book)
    /\ OneRun(book)

-----------------------------------------------------------------------------
(* What becomes of a submission. *)

Advances(x, y) ==
    /\ y.conversation = x.conversation /\ y.class = x.class /\ y.key = x.key
    /\ x.entry # Nothing => y.entry = x.entry
    /\ x.run # Nothing => y.run = x.run
    /\ x.status = "running" => y.status \in {"running", "done", "unanswered"}
    /\ x.status \in Over => y = x

\* The inputs of the live run end together, in the same way.
EndTogether(book, next) ==
    \A i, j \in DOMAIN book :
        Together(book[i], book[j]) /\ book[i].status = "running" /\ book[j].status = "running"
            => next[i].status = next[j].status

Goes(book, next) ==
    /\ DOMAIN book \subseteq DOMAIN next
    /\ \A i \in DOMAIN book : Advances(book[i], next[i])
    /\ EndTogether(book, next)

-----------------------------------------------------------------------------

Init == ledger = <<>>

\* One commit may accept, serve and end any number of submissions.
Step == Goes(ledger, ledger')

Spec == Init /\ [][Step]_ledger /\ []Lawful(ledger)
=============================================================================
