------------------------------- MODULE Outbox -------------------------------
(***************************************************************************)
(* Replies on their way to a chat: who sees that a run is settled          *)
(* (komo-gateway/src/service/durable/watch.rs), the log of deliveries      *)
(* (komo-gateway/src/deliveries.rs, notifier.rs) with its rows             *)
(* (komo-store/src/repos/deliveries.rs), and the channels that come and go *)
(* (komo-gateway/src/service/channels.rs).                                 *)
(*                                                                         *)
(* That a run is settled is on disk in durable.db; the row of its reply is *)
(* written to aux.db by tasks that live in memory: the watcher of the      *)
(* session, a waiter for an input that was open when the process started,  *)
(* the replay of the latest inputs after a start.  A reply may be asked    *)
(* for by all three.  One mutex covers each delivery and each flush.       *)
(*                                                                         *)
(* Only final replies are modelled: notices without a key, absorbed inputs *)
(* and silent answers are left out.  A channel has one chat.               *)
(***************************************************************************)
EXTENDS Integers, Sequences, FiniteSets, SequencesExt

CONSTANTS
    Channels,     \* the platforms
    NRuns,        \* runs, by the ID of their first input
    Targets,      \* where the reply of a run goes: one chat, or every home chat
    Recent,       \* inputs the replay looks at (REPLAY_RECENT)
    MaxCrashes,   \* bound on the restarts of the process
    MaxTroubles   \* bound on operations on the rows that fail, attempts a
                  \* channel does not accept, frames the watcher misses and
                  \* channels that go away

Run == 1 .. NRuns

ASSUME BoundsAssumption ==
    /\ NRuns \in Nat \ {0} /\ Recent \in Nat
    /\ MaxCrashes \in Nat /\ MaxTroubles \in Nat
ASSUME TargetsAssumption ==
    /\ Targets \in [Run -> Seq(Channels)]
    /\ \A r \in Run : Targets[r] # <<>> /\ IsInjective(Targets[r])

VARIABLES
    run,       \* what durable.db has of a run: nothing, an open input, a settled one
    rows,      \* the deliveries, in the order of their IDs
    up,        \* the process is running
    waiting,   \* open inputs that have a waiter
    calls,     \* replies somebody has asked for, with the next target
    flushes,   \* flushes that have been started and wait for the lock
    holder,    \* the holder of the lock
    sender,    \* channels that are registered
    missed,    \* replies that were asked for and not recorded everywhere, or
               \* whose frame was missed, since the process started
    broken,    \* an operation on the rows failed since the process started
    crashes, troubles

vars == <<run, rows, up, waiting, calls, flushes, holder, sender, missed, broken,
          crashes, troubles>>
bounds == <<crashes, troubles>>
memory == <<up, waiting, missed>>

Row == [run : Run, to : Channels, state : {"pending", "deferred", "sent"},
        why : {"new", "unavailable", "refused"},  \* what its last error says
        arrived : Nat,   \* times the platform showed the message
        blurred : Nat]   \* of these, times nobody can know

Call == [by : {"frame", "waiter", "replay"}, run : Run, at : Nat \ {0}]

\* The lock is free, or held for rows to send: the oldest of them is looked at,
\* or its end is not written down yet.  The delivery that holds it is known.
Free == [step |-> "free"]
Holder ==
    {Free}
        \cup [step : {"send", "settle"}, todo : SUBSET (Nat \ {0}), call : Call \cup {Free},
              end : {"none", "sent", "unavailable", "refused", "error"}]

\* The type invariant.
TypeOK ==
    /\ run \in [Run -> {"none", "open", "settled"}]
    /\ rows \in Seq(Row)
    /\ up \in BOOLEAN
    /\ waiting \subseteq Run
    /\ calls \subseteq Call /\ \A c \in calls : c.at <= Len(Targets[c.run])
    /\ flushes \subseteq SUBSET Channels
    /\ holder \in Holder
    /\ holder # Free =>
           /\ holder.todo # {} /\ holder.todo \subseteq DOMAIN rows
           /\ holder.end = "none" <=> holder.step = "send"
    /\ sender \subseteq Channels
    /\ missed \subseteq Run
    /\ broken \in BOOLEAN
    /\ ~up => calls = {} /\ flushes = {} /\ holder = Free /\ sender = {}
    /\ crashes \in 0 .. MaxCrashes /\ troubles \in 0 .. MaxTroubles

Init ==
    /\ run = [r \in Run |-> "none"]
    /\ rows = <<>>
    /\ up = FALSE
    /\ waiting = {} /\ calls = {} /\ flushes = {}
    /\ holder = Free
    /\ sender = {}
    /\ missed = {} /\ broken = FALSE
    /\ crashes = 0 /\ troubles = 0

Trouble ==
    /\ troubles < MaxTroubles
    /\ troubles' = troubles + 1
    /\ UNCHANGED crashes

-----------------------------------------------------------------------------
(* Runs, and who sees that they end *)

\* An input is submitted; the session has its watcher by then (`ensure').
Open(r) ==
    /\ up
    /\ run[r] = "none" /\ \A q \in 1 .. r - 1 : run[q] # "none"
    /\ run' = [run EXCEPT ![r] = "open"]
    /\ UNCHANGED <<rows, calls, flushes, holder, sender, broken, memory, bounds>>

\* A run is settled.  The watcher gets the frame, unless it has fallen behind
\* the broadcast (`Lagged'); a waiter reads the row of the submission.
Settle(r) ==
    /\ up /\ run[r] = "open"
    /\ run' = [run EXCEPT ![r] = "settled"]
    /\ \E seen \in BOOLEAN :
        /\ IF seen THEN UNCHANGED bounds ELSE Trouble
        /\ calls' = calls
               \cup (IF seen THEN {[by |-> "frame", run |-> r, at |-> 1]} ELSE {})
               \cup (IF r \in waiting THEN {[by |-> "waiter", run |-> r, at |-> 1]} ELSE {})
        /\ missed' = IF seen THEN missed ELSE missed \cup {r}
    /\ waiting' = waiting \ {r}
    /\ UNCHANGED <<rows, up, flushes, holder, sender, broken>>

\* The replay takes the inputs with the highest IDs, however late the others
\* were settled.
Newest == {r \in Run : /\ run[r] = "settled"
                       /\ Cardinality({q \in r + 1 .. NRuns : run[q] = "settled"}) < Recent}

\* The process starts: a watcher for every session and a waiter for every open
\* input before the engine resumes (`reattach'), the replay after it, the flush
\* of everything when the channels have been told to start.
Boot ==
    /\ ~up /\ up' = TRUE
    /\ waiting' = {r \in Run : run[r] = "open"}
    /\ calls' = {[by |-> "replay", run |-> r, at |-> 1] : r \in Newest}
    /\ flushes' = {Channels}
    /\ UNCHANGED <<run, rows, holder, sender, missed, broken, bounds>>

\* The row the holder of the lock sees to.
Oldest == CHOOSE k \in holder.todo : \A l \in holder.todo : k <= l

\* The process ends; whether a message that was sent has been shown is not
\* known to the row.
Crash ==
    /\ up /\ crashes < MaxCrashes
    /\ crashes' = crashes + 1
    /\ up' = FALSE
    /\ rows' = IF holder.step = "settle" /\ holder.end = "sent"
               THEN [rows EXCEPT ![Oldest].blurred = @ + 1]
               ELSE rows
    /\ waiting' = {} /\ calls' = {} /\ flushes' = {}
    /\ holder' = Free
    /\ sender' = {}
    /\ missed' = {} /\ broken' = FALSE
    /\ UNCHANGED <<run, troubles>>

-----------------------------------------------------------------------------
(* Channels *)

\* Mutant of Register: what is still to be sent waits for the next message.
RegisterQuietly(c) ==
    /\ up /\ c \notin sender
    /\ sender' = sender \cup {c}
    /\ UNCHANGED <<run, rows, calls, flushes, holder, broken, memory, bounds>>

\* A channel is registered, and its platform is flushed by a task of its own.
Register(c) ==
    /\ up /\ c \notin sender
    /\ sender' = sender \cup {c}
    /\ flushes' = flushes \cup {{c}}
    /\ UNCHANGED <<run, rows, calls, holder, broken, memory, bounds>>

\* A channel goes away: its plugin exits, or it is stopped by a reload.
Unregister(c) ==
    /\ c \in sender
    /\ Trouble
    /\ sender' = sender \ {c}
    /\ UNCHANGED <<run, rows, calls, flushes, holder, broken, memory>>

\* A message comes in from a chat: its deliveries are flushed before it is handled.
Inbound(c) ==
    /\ c \in sender
    /\ \E k \in DOMAIN rows : rows[k].to = c /\ rows[k].state # "sent"
    /\ flushes' = flushes \cup {{c}}
    /\ UNCHANGED <<run, rows, calls, holder, sender, broken, memory, bounds>>

-----------------------------------------------------------------------------
(* The log: one delivery or one flush at a time *)

Fails == Trouble /\ broken' = TRUE

\* What the call does when a target has been seen to: the next target, unless
\* the delivery ended in an error, which ends `deliver_home_once'.
Return(c, ok) ==
    LET more == c.at < Len(Targets[c.run])
    IN  /\ calls' = (calls \ {c}) \cup (IF ok /\ more THEN {[c EXCEPT !.at = @ + 1]} ELSE {})
        /\ missed' = IF more /\ ~ok THEN missed \cup {c.run} ELSE missed

Target(c) == Targets[c.run][c.at]

\* Mutant of Unsent: all rows of the chat.
UnsentOrNot(of) == {k \in DOMAIN rows : rows[k].to \in of}

Unsent(of) == {k \in DOMAIN rows : rows[k].to \in of /\ rows[k].state # "sent"}

Sending(todo, c) ==
    IF todo = {} THEN Free
    ELSE [step |-> "send", todo |-> todo, call |-> c, end |-> "none"]

\* The row of the same reply to the same chat, whatever became of it.
Existing(c) == {k \in DOMAIN rows : rows[k].run = c.run /\ rows[k].to = Target(c)}

\* `deliver_once' takes the lock for one target of a call, and `record_once'
\* finds the row there is or writes a new one; a row that was sent ends the
\* delivery.
Deliver(c) ==
    /\ c \in calls /\ holder = Free
    /\ \/ /\ Existing(c) = {}
          /\ rows' = Append(rows, [run |-> c.run, to |-> Target(c), state |-> "pending",
                                   why |-> "new", arrived |-> 0, blurred |-> 0])
          /\ holder' = Sending({Len(rows) + 1}, c)
          /\ calls' = calls \ {c}
          /\ UNCHANGED <<missed, broken, bounds>>
       \/ \E k \in Existing(c) :
             /\ IF rows[k].state = "sent"
                THEN Return(c, TRUE) /\ UNCHANGED holder
                ELSE /\ holder' = Sending({k}, c)
                     /\ calls' = calls \ {c}
                     /\ UNCHANGED missed
             /\ UNCHANGED <<rows, broken, bounds>>
       \/ /\ Fails
          /\ calls' = calls \ {c}
          /\ missed' = missed \cup {c.run}
          /\ UNCHANGED <<rows, holder>>
    /\ UNCHANGED <<run, up, waiting, flushes, sender>>

\* A flush takes the lock and reads only then what is to be sent: what the
\* holder before has settled is not sent again.
Flush(of) ==
    /\ of \in flushes /\ holder = Free
    /\ flushes' = flushes \ {of}
    /\ \/ /\ holder' = Sending(Unsent(of), Free)
          /\ UNCHANGED <<broken, bounds>>
       \/ /\ Fails
          /\ UNCHANGED holder
    /\ UNCHANGED <<run, rows, calls, sender, memory>>

\* `attempt': without a channel the row is put off; a channel accepts the
\* message, has no way to push it now, or answers with an error, after which
\* the message may have been shown all the same.
Send ==
    /\ holder.step = "send"
    /\ LET k == Oldest
       IN  \/ /\ rows[k].to \notin sender
              /\ holder' = [holder EXCEPT !.step = "settle", !.end = "unavailable"]
              /\ UNCHANGED <<rows, bounds>>
           \/ /\ rows[k].to \in sender
              /\ rows' = [rows EXCEPT ![k].arrived = @ + 1]
              /\ holder' = [holder EXCEPT !.step = "settle", !.end = "sent"]
              /\ UNCHANGED bounds
           \/ /\ rows[k].to \in sender
              /\ Trouble
              /\ \/ /\ holder' = [holder EXCEPT !.step = "settle", !.end = "refused"]
                    /\ UNCHANGED rows
                 \/ /\ holder' = [holder EXCEPT !.step = "settle", !.end = "error"]
                    /\ \/ UNCHANGED rows
                       \/ rows' = [rows EXCEPT ![k].arrived = @ + 1, ![k].blurred = @ + 1]
    /\ UNCHANGED <<run, calls, flushes, sender, broken, memory>>

\* The end of an attempt on its row.
Settled(row, end) ==
    IF end = "sent" THEN [row EXCEPT !.state = "sent"]
    ELSE [row EXCEPT !.state = "deferred",
                     !.why = IF end = "unavailable" THEN "unavailable" ELSE "refused"]

\* `settle', whose failure is only logged; then the next row of the flush, or
\* the caller of the delivery.
SettleRow ==
    /\ holder.step = "settle"
    /\ LET k == Oldest
       IN  \/ /\ rows' = [rows EXCEPT ![k] = Settled(@, holder.end)]
              /\ UNCHANGED <<broken, bounds>>
           \/ /\ Fails
              /\ rows' = IF holder.end = "sent" THEN [rows EXCEPT ![k].blurred = @ + 1] ELSE rows
    /\ holder' = Sending(holder.todo \ {Oldest}, holder.call)
    /\ IF holder.call = Free THEN UNCHANGED <<calls, missed>>
       ELSE Return(holder.call, holder.end # "error")
    /\ UNCHANGED <<run, up, waiting, flushes, sender>>

-----------------------------------------------------------------------------
Next ==
    \/ \E r \in Run : Open(r) \/ Settle(r)
    \/ \E c \in Channels : Register(c) \/ Unregister(c) \/ Inbound(c)
    \/ \E c \in calls : Deliver(c)
    \/ \E of \in flushes : Flush(of)
    \/ Send \/ SettleRow
    \/ Boot \/ Crash

Spec == Init /\ [][Next]_vars

-----------------------------------------------------------------------------
(* Properties *)

Total(r, c, field(_)) ==
    MapThenSumSet(field, {k \in DOMAIN rows : rows[k].run = r /\ rows[k].to = c})

\* However many tasks ask for the reply of a run, in one process or after a
\* restart, and however many flushes find it unsent, a chat shows it again only
\* if nobody could know of the first time: the process ended, or the row was not
\* written, or the platform's answer was lost.
ShownOnce ==
    \A r \in Run : \A c \in Channels :
        LET arrived(k) == rows[k].arrived
            blurred(k) == rows[k].blurred
        IN  Total(r, c, arrived) <= 1 + Total(r, c, blurred)

\* The process runs, and nobody has anything left to do.
Quiet == up /\ calls = {} /\ flushes = {} /\ holder = Free

Recorded(r) ==
    \A i \in DOMAIN Targets[r] :
        \E k \in DOMAIN rows : rows[k].run = r /\ rows[k].to = Targets[r][i]

\* When all is quiet and a channel is there, nothing is left of what it could
\* not get while it was away: a row that is still unsent was refused by the
\* channel itself.  A delivery that finds no channel while the channel is being
\* registered is sent by the flush that follows.  And the reply of every settled
\* run has a row for each of its chats, wherever the process was stopped before,
\* unless since it was started the frame was missed or a delivery ended in an
\* error, or so many newer inputs are settled that the replay did not reach it.
NothingForgotten ==
    Quiet =>
        /\ \A k \in DOMAIN rows :
            ~broken /\ rows[k].to \in sender /\ rows[k].state # "sent"
                => rows[k].why = "refused"
        /\ \A r \in Run : run[r] = "settled" => Recorded(r) \/ r \in missed \/ r \notin Newest
=============================================================================
