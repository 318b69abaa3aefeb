---------------------- MODULE ConversationsImplements -----------------------
(* The harness keeps the ledger of SubmissionLedger. *)
EXTENDS Conversations

\* What waits in an inbox is served by class: steers, and follow-ups with the inputs
\* that ask to be refused by a busy conversation; writes, among which a reset is
\* special, and those that are for display only and may land while a run goes on.
ClassOf(draft) ==
    CASE draft.kind = "write" /\ draft.head = "self" -> "reset"
      [] draft.kind = "write" /\ draft.head # "self" /\ draft.display -> "display"
      [] draft.kind = "write" /\ draft.head # "self" /\ ~draft.display -> "write"
      [] draft.kind = "input" /\ draft.mode = "steer" -> "steer"
      [] draft.kind = "input" /\ draft.mode # "steer" -> "followUp"

\* The request key, if there is one; a continuation has none in the code.
NoKey == [what |-> "none", of |-> 0, nth |-> 0]
KeyOf(draft) ==
    IF draft.from.nth = 0 \/ draft.from.what = "continue" THEN NoKey ELSE draft.from

StatusOf(record) ==
    CASE record.status = "queued" -> "waiting"
      [] record.status = "placed" -> "running"
      [] record.status \in {"done", "unanswered", "withdrawn"} -> record.status

Accepted(record) ==
    [conversation |-> record.conversation, class |-> ClassOf(record.draft),
     key |-> KeyOf(record.draft), status |-> StatusOf(record),
     entry |-> record.entry, run |-> record.run]

LedgerOf(s) == [i \in DOMAIN s.sub |-> Accepted(s.sub[i])]

Promise == INSTANCE SubmissionLedger WITH
    Reset <- "reset", Input <- {"steer", "followUp"}, NoKey <- NoKey,
    ledger <- LedgerOf(db)

\* Refinement: every commit, with all it places, settles, starts and hands back, is a
\* step of the ledger; and no other step changes it.
KeepsLedger == Promise!Spec
=============================================================================
