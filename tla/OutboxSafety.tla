---------------------------- MODULE OutboxSafety ----------------------------
(***************************************************************************)
(* Theorems about replies on their way to a chat, for any number of runs,  *)
(* channels, restarts and failures: the types, that a chat shows a reply   *)
(* again only if nobody could know of the first time, and that nothing is  *)
(* forgotten, neither a row that could be sent nor the row of a reply.     *)
(***************************************************************************)
EXTENDS Outbox, SequenceTheorems, FiniteSetTheorems, WellFoundedInduction, TLAPS

\* A set of natural numbers has a least one.
LEMMA Least ==
    ASSUME NEW S \in SUBSET Nat, S # {}
    PROVE  \E m \in S : \A e \in S : m <= e
  <1> DEFINE Less == {pair \in Nat \X Nat : pair[1] < pair[2]}
  <1>1. IsWellFoundedOn(Less, Nat)
    BY NatLessThanWellFounded DEF OpToRel
  <1>2. PICK m \in S : \A e \in S : ~(<<e, m>> \in Less)
    <2> HIDE DEF Less
    <2> QED
      BY <1>1, WFMin
  <1>3. ASSUME NEW e \in S PROVE m <= e
    <2>1. <<e, m>> \in Nat \X Nat /\ <<e, m>>[1] = e /\ <<e, m>>[2] = m
      OBVIOUS
    <2>2. ~(e < m)
      BY <1>2, <2>1
    <2>3. m \in Nat /\ e \in Nat
      OBVIOUS
    <2> QED
      BY <2>2, <2>3
  <1> QED
    BY <1>3

\* Who holds the lock, if anybody does.
LEMMA HolderIs ==
    ASSUME TypeOK
    PROVE  \/ holder = Free /\ holder.step = "free"
           \/ /\ holder # Free /\ holder.step \in {"send", "settle"}
              /\ holder \in [step : {"send", "settle"}, todo : SUBSET (Nat \ {0}),
                             call : Call \cup {Free},
                             end : {"none", "sent", "unavailable", "refused", "error"}]
              /\ holder.call \in Call \cup {Free}
              /\ holder.end \in {"none", "sent", "unavailable", "refused", "error"}
              /\ holder.end = "none" <=> holder.step = "send"
              /\ holder.todo \subseteq DOMAIN rows /\ holder.todo \subseteq Nat \ {0}
              /\ Oldest \in holder.todo
              /\ rows[Oldest] \in Row
  <1>1. CASE holder = Free
    BY <1>1 DEF Free
  <1>2. CASE holder # Free
    <2>1. holder \in [step : {"send", "settle"}, todo : SUBSET (Nat \ {0}),
                      call : Call \cup {Free},
                      end : {"none", "sent", "unavailable", "refused", "error"}]
      BY <1>2 DEF TypeOK, Holder
    <2>2. /\ holder.todo # {} /\ holder.todo \subseteq DOMAIN rows
          /\ holder.todo \subseteq Nat /\ rows \in Seq(Row)
          /\ holder.end = "none" <=> holder.step = "send"
      BY <1>2, <2>1 DEF TypeOK
    <2>3. Oldest \in holder.todo
      BY <2>2, Least DEF Oldest
    <2>4. rows[Oldest] \in Row
      BY <2>2, <2>3, ElementOfSeq, LenProperties
    <2> QED
      BY <1>2, <2>1, <2>2, <2>3, <2>4
  <1> QED
    BY <1>1, <1>2

\* What is to be sent, if it is anything, is held by whoever sends it.
LEMMA SendingType ==
    ASSUME NEW todo \in SUBSET (Nat \ {0}), NEW c \in Call \cup {Free}
    PROVE  /\ Sending(todo, c) \in Holder
           /\ Sending(todo, c) = Free <=> todo = {}
           /\ Sending(todo, c) # Free =>
                  /\ Sending(todo, c).todo = todo /\ Sending(todo, c).call = c
                  /\ Sending(todo, c).step = "send" /\ Sending(todo, c).end = "none"
           /\ Sending(todo, c).step # "settle"
  <1>1. CASE todo = {}
    BY <1>1 DEF Sending, Holder, Free
  <1>2. CASE todo # {}
    <2> DEFINE held == [step |-> "send", todo |-> todo, call |-> c, end |-> "none"]
    <2>1. Sending(todo, c) = held
      BY <1>2 DEF Sending
    <2>2. held \in Holder
      BY DEF Holder
    <2>3. held.step = "send" /\ Free.step = "free"
      BY DEF Free
    <2>4. held # Free
      BY <2>3
    <2>5. held.todo = todo /\ held.call = c /\ held.end = "none"
      OBVIOUS
    <2> HIDE DEF held
    <2> QED
      BY <1>2, <2>1, <2>2, <2>3, <2>4, <2>5
  <1> QED
    BY <1>1, <1>2

\* The chat a call has come to.
LEMMA TargetType ==
    ASSUME NEW c \in Call, c.at <= Len(Targets[c.run])
    PROVE  /\ Target(c) \in Channels /\ c.run \in Run /\ c.at \in DOMAIN Targets[c.run]
           /\ c.at \in Nat \ {0} /\ Len(Targets[c.run]) \in Nat
  <1>1. c.run \in Run /\ c.at \in Nat \ {0}
    BY DEF Call
  <1>2. Targets[c.run] \in Seq(Channels)
    BY <1>1, TargetsAssumption
  <1>3. Len(Targets[c.run]) \in Nat /\ DOMAIN Targets[c.run] = 1 .. Len(Targets[c.run])
    BY <1>2, LenProperties
  <1>4. c.at \in 1 .. Len(Targets[c.run])
    BY <1>1, <1>3
  <1> QED
    BY <1>1, <1>2, <1>3, <1>4, ElementOfSeq DEF Target

\* A call that is taken, and what it leaves behind.
Fits(c) == c.at <= Len(Targets[c.run])

\* A call begins with the first chat.
LEMMA FirstCall ==
    ASSUME NEW r \in Run, NEW by \in {"frame", "waiter", "replay"}
    PROVE  /\ [by |-> by, run |-> r, at |-> 1] \in Call
           /\ Fits([by |-> by, run |-> r, at |-> 1])
  <1>1. Targets[r] \in Seq(Channels) /\ Targets[r] # <<>>
    BY TargetsAssumption
  <1>2. Len(Targets[r]) \in Nat /\ Len(Targets[r]) # 0
    BY <1>1, LenProperties, EmptySeq
  <1> QED
    BY <1>2 DEF Call, Fits

\* What a caller goes on with.
LEMMA ReturnType ==
    ASSUME TypeOK, NEW c \in Call, Fits(c), NEW ok \in BOOLEAN, Return(c, ok)
    PROVE  /\ calls' \subseteq Call /\ \A d \in calls' : Fits(d)
           /\ missed' \subseteq Run
  <1> DEFINE next == [c EXCEPT !.at = @ + 1]
  <1>1. c.run \in Run /\ c.at \in Nat \ {0} /\ Len(Targets[c.run]) \in Nat
    BY TargetType DEF Fits
  <1>2. next \in Call /\ next.at = c.at + 1 /\ next.run = c.run
    BY <1>1 DEF Call
  <1>3. c.at < Len(Targets[c.run]) => Fits(next)
    BY <1>1, <1>2 DEF Fits
  <1>4. calls \subseteq Call /\ \A d \in calls : Fits(d)
    BY DEF TypeOK, Fits
  <1>5. calls' \subseteq calls \cup (IF c.at < Len(Targets[c.run]) THEN {next} ELSE {})
    BY DEF Return
  <1>6. missed' \subseteq missed \cup {c.run} /\ missed \subseteq Run
    BY DEF Return, TypeOK
  <1> HIDE DEF next
  <1> QED
    BY <1>1, <1>2, <1>3, <1>4, <1>5, <1>6

\* The initial state is of its type.
LEMMA InitTypes == Init => TypeOK
  <1> SUFFICES ASSUME Init PROVE TypeOK
    OBVIOUS
  <1>1. run \in [Run -> {"none", "open", "settled"}] /\ rows \in Seq(Row)
    BY EmptySeq DEF Init
  <1>2. holder = Free /\ holder \in Holder
    BY DEF Init, Holder
  <1>3. crashes \in 0 .. MaxCrashes /\ troubles \in 0 .. MaxTroubles
    BY BoundsAssumption DEF Init
  <1> QED
    BY <1>1, <1>2, <1>3 DEF Init, TypeOK

\* What a row holds.
LEMMA RowsType ==
    ASSUME TypeOK
    PROVE  /\ rows \in Seq(Row) /\ Len(rows) \in Nat /\ DOMAIN rows = 1 .. Len(rows)
           /\ \A k \in DOMAIN rows :
                  /\ rows[k] \in Row
                  /\ rows[k].run \in Run /\ rows[k].to \in Channels
                  /\ rows[k].state \in {"pending", "deferred", "sent"}
                  /\ rows[k].why \in {"new", "unavailable", "refused"}
                  /\ rows[k].arrived \in Nat /\ rows[k].blurred \in Nat
  <1>1. rows \in Seq(Row) /\ Len(rows) \in Nat /\ DOMAIN rows = 1 .. Len(rows)
    BY LenProperties DEF TypeOK
  <1>2. \A k \in DOMAIN rows : rows[k] \in Row
    BY <1>1, ElementOfSeq
  <1> QED
    BY <1>1, <1>2 DEF Row

\* A row is changed, but not for which reply it stands.
LEMMA OneRowType ==
    ASSUME TypeOK, NEW k \in DOMAIN rows, NEW row \in Row,
           rows' = [rows EXCEPT ![k] = row]
    PROVE  rows' \in Seq(Row) /\ DOMAIN rows' = DOMAIN rows
  <1>1. rows \in [1 .. Len(rows) -> Row] /\ Len(rows) \in Nat
    BY RowsType
  <1>2. rows' \in [1 .. Len(rows) -> Row]
    BY <1>1
  <1> QED
    BY <1>1, <1>2

\* A row that is changed is still a row.
LEMMA RowChanges ==
    ASSUME NEW row \in Row, NEW end
    PROVE  /\ [row EXCEPT !.arrived = @ + 1] \in Row
           /\ [row EXCEPT !.blurred = @ + 1] \in Row
           /\ [row EXCEPT !.arrived = @ + 1, !.blurred = @ + 1] \in Row
           /\ Settled(row, end) \in Row
  <1>1. row.arrived + 1 \in Nat /\ row.blurred + 1 \in Nat
    BY DEF Row
  <1>2. [row EXCEPT !.arrived = @ + 1] \in Row /\ [row EXCEPT !.blurred = @ + 1] \in Row
    BY <1>1 DEF Row
  <1>3. [row EXCEPT !.arrived = @ + 1, !.blurred = @ + 1] \in Row
    BY <1>1 DEF Row
  <1>4. CASE end = "sent"
    BY <1>2, <1>3, <1>4 DEF Settled, Row
  <1>5. CASE end # "sent"
    <2>1. \A why \in {"new", "unavailable", "refused"} :
              [row EXCEPT !.state = "deferred", !.why = why] \in Row
      BY DEF Row
    <2> QED
      BY <1>2, <1>3, <1>5, <2>1 DEF Settled
  <1> QED
    BY <1>4, <1>5

\* So is the row of a new delivery.
LEMMA NewRowType ==
    ASSUME NEW r \in Run, NEW c \in Channels
    PROVE  [run |-> r, to |-> c, state |-> "pending", why |-> "new",
            arrived |-> 0, blurred |-> 0] \in Row
  BY DEF Row

\* The counters stay within their bounds.
LEMMA TroubleType ==
    ASSUME TypeOK, Trouble
    PROVE  crashes' \in 0 .. MaxCrashes /\ troubles' \in 0 .. MaxTroubles
  BY BoundsAssumption DEF Trouble, TypeOK

\* The lock may be free.
LEMMA FreeTypes == Free \in Holder /\ Free.step = "free"
  BY DEF Holder, Free

\* What a step may do to the rest of the state.
LEMMA RunTypes ==
    ASSUME TypeOK,
           \/ \E r \in Run : Open(r) \/ Settle(r)
           \/ \E c \in Channels : Register(c) \/ Unregister(c) \/ Inbound(c)
           \/ Boot
    PROVE  TypeOK'
  <1> USE DEF Fits
  <1>1. ASSUME NEW r \in Run, Open(r) PROVE TypeOK'
    BY <1>1 DEF Open, TypeOK, memory, bounds
  <1>2. ASSUME NEW r \in Run, Settle(r) PROVE TypeOK'
    <2>1. /\ [by |-> "frame", run |-> r, at |-> 1] \in Call
          /\ Fits([by |-> "frame", run |-> r, at |-> 1])
          /\ [by |-> "waiter", run |-> r, at |-> 1] \in Call
          /\ Fits([by |-> "waiter", run |-> r, at |-> 1])
      BY FirstCall
    <2>2. /\ calls' \subseteq calls \cup {[by |-> "frame", run |-> r, at |-> 1],
                                          [by |-> "waiter", run |-> r, at |-> 1]}
          /\ missed' \subseteq missed \cup {r}
      BY <1>2 DEF Settle
    <2>3. crashes' \in 0 .. MaxCrashes /\ troubles' \in 0 .. MaxTroubles
      <3>1. CASE Trouble
        BY <3>1, TroubleType
      <3>2. CASE UNCHANGED bounds
        BY <3>2 DEF bounds, TypeOK
      <3> QED
        BY <1>2, <3>1, <3>2 DEF Settle
    <2>4. calls' \subseteq Call /\ \A c \in calls' : c.at <= Len(Targets[c.run])
      BY <2>1, <2>2 DEF TypeOK
    <2> QED
      BY <1>2, <2>2, <2>3, <2>4 DEF Settle, TypeOK
  <1>3. ASSUME NEW c \in Channels, Register(c) \/ Inbound(c) PROVE TypeOK'
    BY <1>3 DEF Register, Inbound, TypeOK, memory, bounds
  <1>4. ASSUME NEW c \in Channels, Unregister(c) PROVE TypeOK'
    BY <1>4, TroubleType DEF Unregister, TypeOK, memory
  <1>5. CASE Boot
    <2>1. \A r \in Run : /\ [by |-> "replay", run |-> r, at |-> 1] \in Call
                         /\ Fits([by |-> "replay", run |-> r, at |-> 1])
      BY FirstCall
    <2>2. Newest \subseteq Run
      BY DEF Newest
    <2>3. calls' \subseteq Call /\ \A c \in calls' : c.at <= Len(Targets[c.run])
      BY <1>5, <2>1, <2>2 DEF Boot
    <2> QED
      BY <1>5, <2>3 DEF Boot, TypeOK, bounds
  <1> QED
    BY <1>1, <1>2, <1>3, <1>4, <1>5

\* The lock is taken, and given back.
HeldType(h, n) ==
    /\ h \in Holder
    /\ h # Free =>
           /\ h.todo # {} /\ h.todo \subseteq 1 .. n
           /\ h.end = "none" <=> h.step = "send"
           /\ h.call # Free => Fits(h.call)

\* Rows of a delivery or of a flush can be held.
LEMMA SendingHeld ==
    ASSUME NEW n \in Nat, NEW todo \in SUBSET (1 .. n), NEW c \in Call \cup {Free},
           c # Free => Fits(c)
    PROVE  HeldType(Sending(todo, c), n)
  <1>1. todo \in SUBSET (Nat \ {0})
    OBVIOUS
  <1> QED
    BY <1>1, SendingType DEF HeldType

\* A step of the log changes rows, calls and the lock.
LEMMA LockTypes ==
    ASSUME TypeOK, up, UNCHANGED <<run, up, waiting, sender>>, flushes' \subseteq flushes,
           rows' \in Seq(Row), HeldType(holder', Len(rows')),
           calls' \subseteq Call, \A d \in calls' : Fits(d),
           missed' \subseteq Run, broken' \in BOOLEAN,
           crashes' \in 0 .. MaxCrashes, troubles' \in 0 .. MaxTroubles
    PROVE  TypeOK'
  <1>1. DOMAIN rows' = 1 .. Len(rows')
    BY LenProperties
  <1> QED
    BY <1>1 DEF TypeOK, HeldType, Fits

\* The lock is taken for a delivery.
LEMMA DeliverTypes ==
    ASSUME TypeOK, NEW c \in calls, Deliver(c)
    PROVE  TypeOK' /\ HeldType(holder', Len(rows'))
  <1>1. /\ c \in Call /\ Fits(c) /\ Target(c) \in Channels /\ c.run \in Run /\ up
        /\ calls \ {c} \subseteq Call /\ \A d \in calls \ {c} : Fits(d)
        /\ missed \subseteq Run
    BY TargetType DEF TypeOK, Fits
  <1>2. /\ holder = Free /\ UNCHANGED <<run, up, waiting, flushes, sender>>
        /\ rows \in Seq(Row) /\ Len(rows) \in Nat /\ DOMAIN rows = 1 .. Len(rows)
    BY RowsType DEF Deliver
  <1> DEFINE Rest ==
                 /\ rows' \in Seq(Row) /\ HeldType(holder', Len(rows'))
                 /\ calls' \subseteq Call /\ \A d \in calls' : Fits(d)
                 /\ missed' \subseteq Run /\ broken' \in BOOLEAN
                 /\ crashes' \in 0 .. MaxCrashes /\ troubles' \in 0 .. MaxTroubles
  <1>4. broken \in BOOLEAN /\ crashes \in 0 .. MaxCrashes /\ troubles \in 0 .. MaxTroubles
    BY DEF TypeOK
  <1>5. HeldType(Free, Len(rows))
    BY FreeTypes DEF HeldType
  <1>6. ASSUME Existing(c) = {},
               rows' = Append(rows, [run |-> c.run, to |-> Target(c), state |-> "pending",
                                     why |-> "new", arrived |-> 0, blurred |-> 0]),
               holder' = Sending({Len(rows) + 1}, c), calls' = calls \ {c},
               UNCHANGED <<missed, broken, bounds>>
        PROVE  Rest
    <2>1. rows' \in Seq(Row) /\ Len(rows') = Len(rows) + 1
      BY <1>1, <1>2, <1>6, NewRowType, AppendProperties
    <2>2. {Len(rows) + 1} \in SUBSET (1 .. Len(rows'))
      BY <1>2, <2>1
    <2>3. HeldType(holder', Len(rows'))
      BY <1>1, <1>2, <1>6, <2>1, <2>2, SendingHeld
    <2>4. UNCHANGED <<missed, broken, crashes, troubles>> /\ calls' = calls \ {c}
      BY <1>6 DEF bounds
    <2> QED
      BY <1>1, <1>4, <2>1, <2>3, <2>4
  <1>7. ASSUME NEW k \in Existing(c),
               /\ IF rows[k].state = "sent"
                  THEN Return(c, TRUE) /\ UNCHANGED holder
                  ELSE /\ holder' = Sending({k}, c)
                       /\ calls' = calls \ {c}
                       /\ UNCHANGED missed
               /\ UNCHANGED <<rows, broken, bounds>>
        PROVE  Rest
    <2>1. {k} \in SUBSET (1 .. Len(rows))
      BY <1>2, <1>7 DEF Existing
    <2>2. CASE rows[k].state = "sent"
      BY <1>1, <1>2, <1>4, <1>5, <1>7, <2>2, ReturnType DEF bounds
    <2>3. CASE rows[k].state # "sent"
      <3>1. HeldType(Sending({k}, c), Len(rows))
        BY <1>1, <1>2, <2>1, SendingHeld
      <3> QED
        BY <1>1, <1>2, <1>4, <1>7, <2>3, <3>1 DEF bounds
    <2> QED
      BY <2>2, <2>3
  <1>8. ASSUME Fails, calls' = calls \ {c}, missed' = missed \cup {c.run},
               UNCHANGED <<rows, holder>>
        PROVE  Rest
    <2>1. broken' \in BOOLEAN /\ crashes' \in 0 .. MaxCrashes /\ troubles' \in 0 .. MaxTroubles
      BY <1>8, TroubleType DEF Fails
    <2>2. rows' = rows /\ holder' = Free /\ missed' = missed \cup {c.run} /\ calls' = calls \ {c}
      BY <1>2, <1>8
    <2>3. HeldType(holder', Len(rows'))
      BY <1>5, <2>2
    <2> QED
      BY <1>1, <1>2, <2>1, <2>2, <2>3
  <1> HIDE DEF Rest
  <1>9. Rest
    BY <1>6, <1>7, <1>8 DEF Deliver
  <1> QED
    BY <1>1, <1>2, <1>9, LockTypes DEF Rest

\* The lock is taken for a flush.
LEMMA FlushTypes ==
    ASSUME TypeOK, NEW of \in flushes, Flush(of)
    PROVE  TypeOK' /\ HeldType(holder', Len(rows'))
  <1>1. /\ up /\ UNCHANGED <<run, up, waiting, sender, calls, missed, rows>>
        /\ flushes' \subseteq flushes /\ holder = Free
    BY DEF Flush, memory, TypeOK
  <1>2. rows \in Seq(Row) /\ Len(rows) \in Nat /\ DOMAIN rows = 1 .. Len(rows)
    BY RowsType
  <1>3. HeldType(holder', Len(rows'))
    <2>1. CASE holder' = Sending(Unsent(of), Free)
      <3>1. Unsent(of) \in SUBSET (1 .. Len(rows))
        BY <1>2 DEF Unsent
      <3> QED
        BY <1>1, <1>2, <2>1, <3>1, SendingHeld
    <2>2. CASE holder' = holder
      BY <1>1, <2>2, FreeTypes DEF HeldType
    <2> QED
      BY <2>1, <2>2 DEF Flush
  <1>4. broken' \in BOOLEAN /\ crashes' \in 0 .. MaxCrashes /\ troubles' \in 0 .. MaxTroubles
    <2>1. CASE Fails
      BY <2>1, TroubleType DEF Fails
    <2>2. CASE UNCHANGED <<broken, bounds>>
      BY <2>2 DEF TypeOK, bounds
    <2> QED
      BY <2>1, <2>2 DEF Flush
  <1>5. calls \subseteq Call /\ (\A d \in calls : Fits(d)) /\ missed \subseteq Run
    BY DEF TypeOK, Fits
  <1>6. /\ rows' \in Seq(Row) /\ calls' \subseteq Call /\ (\A d \in calls' : Fits(d))
        /\ missed' \subseteq Run
    BY <1>1, <1>2, <1>5
  <1> QED
    BY <1>1, <1>3, <1>4, <1>6, LockTypes

\* What `attempt' may find.
LEMMA SendEnds ==
    ASSUME TypeOK, Send
    PROVE  /\ holder # Free /\ holder.step = "send" /\ up
           /\ Oldest \in holder.todo /\ Oldest \in DOMAIN rows /\ Oldest' = Oldest
           /\ holder' # Free /\ holder'.step = "settle" /\ holder'.todo = holder.todo
           /\ holder'.call = holder.call
           /\ holder'.end \in {"unavailable", "sent", "refused", "error"}
           /\ holder' \in Holder
           /\ \/ holder'.end = "unavailable" /\ rows[Oldest].to \notin sender /\ rows' = rows
              \/ holder'.end = "sent" /\ rows' = [rows EXCEPT ![Oldest].arrived = @ + 1]
              \/ holder'.end \in {"refused", "error"} /\ rows' = rows
              \/ /\ holder'.end = "error"
                 /\ rows' = [rows EXCEPT ![Oldest].arrived = @ + 1, ![Oldest].blurred = @ + 1]
  <1>1. /\ holder # Free /\ holder.step = "send"
        /\ holder \in [step : {"send", "settle"}, todo : SUBSET (Nat \ {0}),
                       call : Call \cup {Free},
                       end : {"none", "sent", "unavailable", "refused", "error"}]
        /\ holder.todo \subseteq DOMAIN rows /\ Oldest \in holder.todo /\ up
    BY HolderIs DEF Send, TypeOK
  <1>2. PICK end \in {"unavailable", "sent", "refused", "error"} :
            /\ holder' = [holder EXCEPT !.step = "settle", !.end = end]
            /\ \/ end = "unavailable" /\ rows[Oldest].to \notin sender /\ rows' = rows
               \/ end = "sent" /\ rows' = [rows EXCEPT ![Oldest].arrived = @ + 1]
               \/ end \in {"refused", "error"} /\ rows' = rows
               \/ /\ end = "error"
                  /\ rows' = [rows EXCEPT ![Oldest].arrived = @ + 1, ![Oldest].blurred = @ + 1]
    BY DEF Send
  <1>3. /\ holder'.step = "settle" /\ holder'.todo = holder.todo
        /\ holder'.call = holder.call /\ holder'.end = end
        /\ holder' \in [step : {"send", "settle"}, todo : SUBSET (Nat \ {0}),
                        call : Call \cup {Free},
                        end : {"none", "sent", "unavailable", "refused", "error"}]
    BY <1>1, <1>2
  <1>4. holder' # Free /\ holder' \in Holder
    BY <1>3, FreeTypes DEF Holder
  <1>5. Oldest' = Oldest
    BY <1>3 DEF Oldest
  <1> QED
    BY <1>1, <1>2, <1>3, <1>4, <1>5

\* A message is handed to its channel.
LEMMA SendTypes ==
    ASSUME TypeOK, HeldType(holder, Len(rows)), Send
    PROVE  TypeOK' /\ HeldType(holder', Len(rows'))
  <1>1. UNCHANGED <<run, up, waiting, sender, flushes, calls, missed, broken>> /\ up
    BY SendEnds DEF Send, memory
  <1>2. rows' \in Seq(Row) /\ Len(rows') = Len(rows)
    <2> DEFINE row == rows[Oldest]
    <2>1. /\ row \in Row /\ Oldest \in DOMAIN rows
          /\ rows \in Seq(Row) /\ Len(rows) \in Nat /\ DOMAIN rows = 1 .. Len(rows)
      BY SendEnds, RowsType
    <2>2. \/ rows' = rows
          \/ rows' = [rows EXCEPT ![Oldest] = [row EXCEPT !.arrived = @ + 1]]
          \/ rows' = [rows EXCEPT ![Oldest] = [row EXCEPT !.arrived = @ + 1, !.blurred = @ + 1]]
      BY SendEnds
    <2>3. /\ [row EXCEPT !.arrived = @ + 1] \in Row
          /\ [row EXCEPT !.arrived = @ + 1, !.blurred = @ + 1] \in Row
      BY <2>1, RowChanges
    <2>4. rows' \in Seq(Row) /\ DOMAIN rows' = DOMAIN rows
      BY <2>1, <2>2, <2>3, OneRowType
    <2> QED
      BY <2>1, <2>4, LenProperties
  <1>3. HeldType(holder', Len(rows'))
    BY <1>2, SendEnds DEF HeldType
  <1>4. crashes' \in 0 .. MaxCrashes /\ troubles' \in 0 .. MaxTroubles
    <2>1. CASE Trouble
      BY <2>1, TroubleType
    <2>2. CASE UNCHANGED bounds
      BY <2>2 DEF bounds, TypeOK
    <2> QED
      BY <2>1, <2>2 DEF Send
  <1>5. /\ calls' \subseteq Call /\ (\A d \in calls' : Fits(d)) /\ missed' \subseteq Run
        /\ broken' \in BOOLEAN
    BY <1>1 DEF TypeOK, Fits
  <1> QED
    BY <1>1, <1>2, <1>3, <1>4, <1>5, LockTypes

\* What `settle' does to the row and to the lock.
LEMMA SettleEnds ==
    ASSUME TypeOK, HeldType(holder, Len(rows)), SettleRow
    PROVE  /\ holder # Free /\ holder.step = "settle" /\ up
           /\ Oldest \in holder.todo /\ Oldest \in DOMAIN rows
           /\ holder' = Sending(holder.todo \ {Oldest}, holder.call)
           /\ HeldType(holder', Len(rows))
           /\ \/ /\ rows' = [rows EXCEPT ![Oldest] = Settled(rows[Oldest], holder.end)]
                 /\ broken' = broken
              \/ rows' = [rows EXCEPT ![Oldest].blurred = @ + 1] /\ holder.end = "sent" /\ broken'
              \/ rows' = rows /\ holder.end # "sent" /\ broken'
           /\ \/ holder.call = Free /\ UNCHANGED <<calls, missed>>
              \/ holder.call \in Call /\ Return(holder.call, holder.end # "error")
  <1>1. /\ holder # Free /\ holder.step = "settle" /\ up
        /\ holder.todo \subseteq DOMAIN rows /\ Oldest \in holder.todo
        /\ holder.call \in Call \cup {Free}
        /\ Len(rows) \in Nat /\ DOMAIN rows = 1 .. Len(rows)
    BY HolderIs, RowsType DEF SettleRow, TypeOK
  <1>2. holder' = Sending(holder.todo \ {Oldest}, holder.call)
    BY DEF SettleRow
  <1>3. HeldType(holder', Len(rows))
    <2>1. holder.todo \ {Oldest} \in SUBSET (1 .. Len(rows))
      BY <1>1
    <2>2. holder.call # Free => Fits(holder.call)
      BY <1>1 DEF HeldType
    <2> QED
      BY <1>1, <1>2, <2>1, <2>2, SendingHeld
  <1>4. \/ rows' = [rows EXCEPT ![Oldest] = Settled(rows[Oldest], holder.end)] /\ broken' = broken
        \/ rows' = [rows EXCEPT ![Oldest].blurred = @ + 1] /\ holder.end = "sent" /\ broken'
        \/ rows' = rows /\ holder.end # "sent" /\ broken'
    BY DEF SettleRow, Fails
  <1>5. \/ holder.call = Free /\ UNCHANGED <<calls, missed>>
        \/ holder.call \in Call /\ Return(holder.call, holder.end # "error")
    BY <1>1 DEF SettleRow
  <1> QED
    BY <1>1, <1>2, <1>3, <1>4, <1>5

\* The end of an attempt is written down.
LEMMA SettleTypes ==
    ASSUME TypeOK, HeldType(holder, Len(rows)), SettleRow
    PROVE  TypeOK' /\ HeldType(holder', Len(rows'))
  <1>1. UNCHANGED <<run, up, waiting, sender, flushes>> /\ up
    BY SettleEnds DEF SettleRow
  <1>2. rows' \in Seq(Row) /\ Len(rows') = Len(rows)
    <2> DEFINE row == rows[Oldest]
    <2>1. /\ row \in Row /\ Oldest \in DOMAIN rows
          /\ rows \in Seq(Row) /\ Len(rows) \in Nat /\ DOMAIN rows = 1 .. Len(rows)
      BY SettleEnds, RowsType
    <2>2. \/ rows' = rows
          \/ rows' = [rows EXCEPT ![Oldest] = Settled(row, holder.end)]
          \/ rows' = [rows EXCEPT ![Oldest] = [row EXCEPT !.blurred = @ + 1]]
      BY SettleEnds
    <2>3. Settled(row, holder.end) \in Row /\ [row EXCEPT !.blurred = @ + 1] \in Row
      BY <2>1, RowChanges
    <2>4. rows' \in Seq(Row) /\ DOMAIN rows' = DOMAIN rows
      BY <2>1, <2>2, <2>3, OneRowType
    <2> QED
      BY <2>1, <2>4, LenProperties
  <1>3. HeldType(holder', Len(rows'))
    BY <1>2, SettleEnds
  <1>4. broken' \in BOOLEAN /\ crashes' \in 0 .. MaxCrashes /\ troubles' \in 0 .. MaxTroubles
    <2>1. CASE Fails
      BY <2>1, TroubleType DEF Fails
    <2>2. CASE UNCHANGED <<broken, bounds>>
      BY <2>2 DEF bounds, TypeOK
    <2> QED
      BY <2>1, <2>2 DEF SettleRow
  <1>5. calls' \subseteq Call /\ (\A d \in calls' : Fits(d)) /\ missed' \subseteq Run
    <2>1. CASE UNCHANGED <<calls, missed>>
      BY <2>1 DEF TypeOK, Fits
    <2>2. CASE holder.call \in Call /\ Return(holder.call, holder.end # "error")
      <3>1. Fits(holder.call)
        <4>1. holder.call # Free
          BY <2>2, FreeTypes DEF Call, Free
        <4> QED
          BY <4>1, SettleEnds DEF HeldType
      <3> QED
        BY <2>2, <3>1, ReturnType
    <2> QED
      BY <2>1, <2>2, SettleEnds
  <1> QED
    BY <1>1, <1>2, <1>3, <1>4, <1>5, LockTypes

\* The process ends.
LEMMA CrashTypes ==
    ASSUME TypeOK, Crash
    PROVE  TypeOK' /\ HeldType(holder', Len(rows'))
  <1>1. rows' \in Seq(Row)
    <2>1. CASE rows' = rows
      BY <2>1 DEF TypeOK
    <2>2. CASE holder.step = "settle" /\ rows' = [rows EXCEPT ![Oldest].blurred = @ + 1]
      <3>1. Oldest \in DOMAIN rows /\ rows[Oldest] \in Row
        BY <2>2, HolderIs
      <3>2. [rows[Oldest] EXCEPT !.blurred = @ + 1] \in Row
        BY <3>1, RowChanges
      <3>3. rows' = [rows EXCEPT ![Oldest] = [rows[Oldest] EXCEPT !.blurred = @ + 1]]
        BY <2>2
      <3> QED
        BY <3>1, <3>2, <3>3, OneRowType
    <2> QED
      BY <2>1, <2>2 DEF Crash
  <1>2. crashes' \in 0 .. MaxCrashes
    BY BoundsAssumption DEF Crash, TypeOK
  <1>3. holder' = Free
    BY DEF Crash
  <1> QED
    BY <1>1, <1>2, <1>3, FreeTypes DEF Crash, TypeOK, HeldType

\* The lock is not touched.
LEMMA RunHeld ==
    ASSUME TypeOK, HeldType(holder, Len(rows)),
           \/ \E r \in Run : Open(r) \/ Settle(r)
           \/ \E c \in Channels : Register(c) \/ Unregister(c) \/ Inbound(c)
           \/ Boot
    PROVE  HeldType(holder', Len(rows'))
  <1>1. holder' = holder /\ rows' = rows
    BY DEF Open, Settle, Register, Unregister, Inbound, Boot
  <1> QED
    BY <1>1

Typed == TypeOK /\ HeldType(holder, Len(rows))

\* Every step keeps the types.
LEMMA TypesKept == Typed /\ [Next]_vars => Typed'
  <1> SUFFICES ASSUME Typed, [Next]_vars PROVE TypeOK' /\ HeldType(holder', Len(rows'))
    BY DEF Typed, HeldType
  <1> USE DEF Typed
  <1>1. CASE \/ \E r \in Run : Open(r) \/ Settle(r)
             \/ \E c \in Channels : Register(c) \/ Unregister(c) \/ Inbound(c)
             \/ Boot
    BY <1>1, RunTypes, RunHeld
  <1>2. CASE \E c \in calls : Deliver(c)
    BY <1>2, DeliverTypes
  <1>3. CASE \E of \in flushes : Flush(of)
    BY <1>3, FlushTypes
  <1>4. CASE Send
    BY <1>4, SendTypes
  <1>5. CASE SettleRow
    BY <1>5, SettleTypes
  <1>6. CASE Crash
    BY <1>6, CrashTypes
  <1>7. CASE UNCHANGED vars
    BY <1>7 DEF vars, TypeOK
  <1> QED
    BY <1>1, <1>2, <1>3, <1>4, <1>5, <1>6, <1>7 DEF Next

\* The type invariant.
THEOREM OutboxTypeCorrect == Spec => []TypeOK
  <1>1. Init => Typed
    <2>1. Init => holder = Free
      BY DEF Init
    <2> QED
      BY <2>1, InitTypes, FreeTypes DEF Typed, HeldType
  <1>2. Typed => TypeOK
    BY DEF Typed
  <1> QED
    BY <1>1, <1>2, TypesKept, PTL DEF Spec

-----------------------------------------------------------------------------
(* What is shown.                                                          *)

\* A reply has one row for a chat.
OneRow ==
    \A k, l \in DOMAIN rows : rows[k].run = rows[l].run /\ rows[k].to = rows[l].to => k = l

\* What is to be sent was not sent.
InHand == holder # Free => \A k \in holder.todo : rows[k].state # "sent"

\* The platform has accepted the message, and its row does not say so yet.
Accepted(k) == holder.step = "settle" /\ holder.end = "sent" /\ k = Oldest

Counted ==
    \A k \in DOMAIN rows :
        /\ rows[k].arrived <= 1 + rows[k].blurred
        /\ rows[k].state # "sent" /\ ~Accepted(k) => rows[k].arrived <= rows[k].blurred

RInv == Typed /\ OneRow /\ InHand /\ Counted

\* A step that leaves the rows alone, and the lock free or with rows to send.
LEMMA CountedWaits ==
    ASSUME RInv, rows' = rows, holder' = holder
    PROVE  OneRow' /\ InHand' /\ Counted'
  BY DEF RInv, OneRow, InHand, Counted, Accepted, Oldest

\* The lock is taken for rows that were not sent.
LEMMA CountedTaken ==
    ASSUME RInv, rows' = rows, holder = Free, NEW todo \in SUBSET DOMAIN rows,
           \A k \in todo : rows[k].state # "sent",
           NEW c \in Call \cup {Free}, holder' = Sending(todo, c)
    PROVE  OneRow' /\ InHand' /\ Counted'
  <1>1. todo \in SUBSET (Nat \ {0})
    BY RowsType DEF RInv, Typed
  <1>2. holder'.step # "settle" /\ holder.step # "settle" /\ (holder' # Free => holder'.todo = todo)
    BY <1>1, SendingType, FreeTypes
  <1>3. \A k : ~Accepted(k) /\ ~Accepted(k)'
    BY <1>2 DEF Accepted
  <1> QED
    BY <1>2, <1>3 DEF RInv, OneRow, InHand, Counted

\* The row of a delivery is the only one of its reply in its chat.
LEMMA CountedDeliver ==
    ASSUME RInv, NEW c \in calls, Deliver(c)
    PROVE  OneRow' /\ InHand' /\ Counted'
  <1>1. /\ TypeOK /\ c \in Call /\ holder = Free /\ holder.step = "free"
        /\ rows \in Seq(Row) /\ Len(rows) \in Nat /\ DOMAIN rows = 1 .. Len(rows)
    BY RowsType, FreeTypes DEF RInv, Typed, TypeOK, Deliver
  <1>2. CASE rows' = rows /\ holder' = holder
    BY <1>2, CountedWaits
  <1>3. ASSUME NEW k \in Existing(c), rows[k].state # "sent", rows' = rows,
               holder' = Sending({k}, c)
        PROVE  OneRow' /\ InHand' /\ Counted'
    <2>1. {k} \in SUBSET DOMAIN rows
      BY <1>3 DEF Existing
    <2> QED
      BY <1>1, <1>3, <2>1, CountedTaken
  <1>4. CASE /\ Existing(c) = {}
             /\ rows' = Append(rows, [run |-> c.run, to |-> Target(c), state |-> "pending",
                                      why |-> "new", arrived |-> 0, blurred |-> 0])
             /\ holder' = Sending({Len(rows) + 1}, c)
    <2> DEFINE n == Len(rows)
               row == [run |-> c.run, to |-> Target(c), state |-> "pending",
                       why |-> "new", arrived |-> 0, blurred |-> 0]
    <2>1. row \in Row
      BY <1>1, TargetType, NewRowType DEF RInv, Typed, TypeOK
    <2>2. /\ rows' \in Seq(Row) /\ Len(rows') = n + 1
          /\ \A k \in 1 .. n : rows'[k] = rows[k]
          /\ rows'[n + 1] = row
      <3> HIDE DEF row
      <3> QED
        BY <1>1, <1>4, <2>1, AppendProperties DEF row
    <2>3. DOMAIN rows' = 1 .. n + 1
      BY <2>2, LenProperties
    <2>4. \A k \in DOMAIN rows' : k \in 1 .. n \/ k = n + 1
      BY <1>1, <2>3
    <2>5. \A k \in 1 .. n : ~(rows[k].run = c.run /\ rows[k].to = Target(c))
      BY <1>1, <1>4 DEF Existing
    <2>6. /\ row.run = c.run /\ row.to = Target(c) /\ row.state # "sent"
          /\ row.arrived = 0 /\ row.blurred = 0
      OBVIOUS
    <2>7. n + 1 \in Nat \ {0} /\ {n + 1} \in SUBSET (Nat \ {0})
      BY <1>1
    <2> HIDE DEF row, n
    <2>8. OneRow'
      <3> SUFFICES ASSUME NEW k \in DOMAIN rows', NEW l \in DOMAIN rows',
                          rows'[k].run = rows'[l].run, rows'[k].to = rows'[l].to
                   PROVE  k = l
        BY DEF OneRow
      <3>1. CASE k \in 1 .. n /\ l \in 1 .. n
        <4>1. rows'[k] = rows[k] /\ rows'[l] = rows[l] /\ k \in DOMAIN rows /\ l \in DOMAIN rows
          BY <1>1, <2>2, <3>1 DEF n
        <4> QED
          BY <4>1 DEF RInv, OneRow
      <3>2. CASE k = n + 1 /\ l = n + 1
        BY <3>2
      <3>3. CASE k \in 1 .. n /\ l = n + 1
        BY <2>2, <2>5, <2>6, <3>3
      <3>4. CASE k = n + 1 /\ l \in 1 .. n
        BY <2>2, <2>5, <2>6, <3>4
      <3>5. (k \in 1 .. n \/ k = n + 1) /\ (l \in 1 .. n \/ l = n + 1)
        BY <2>4
      <3> QED
        BY <3>1, <3>2, <3>3, <3>4, <3>5
    <2>9. holder'.step # "settle" /\ (holder' # Free => holder'.todo = {n + 1})
      <3>1. {n + 1} \in SUBSET (Nat \ {0}) /\ c \in Call \cup {Free}
        BY <1>1, <2>7
      <3>2. holder' = Sending({n + 1}, c)
        BY <1>4 DEF n
      <3> QED
        BY <3>1, <3>2, SendingType
    <2>10. InHand'
      BY <2>2, <2>6, <2>9 DEF InHand
    <2>11. \A k : ~Accepted(k) /\ ~Accepted(k)'
      BY <1>1, <2>9 DEF Accepted
    <2>12. Counted'
      <3>1. \A k \in 1 .. n : /\ rows'[k].arrived <= 1 + rows'[k].blurred
                              /\ rows'[k].state # "sent" => rows'[k].arrived <= rows'[k].blurred
        BY <1>1, <2>2, <2>11 DEF RInv, Counted, n
      <3>2. rows'[n + 1].arrived <= 1 + rows'[n + 1].blurred
            /\ rows'[n + 1].arrived <= rows'[n + 1].blurred
        BY <2>2, <2>6
      <3> QED
        BY <2>4, <3>1, <3>2 DEF Counted
    <2> QED
      BY <2>8, <2>10, <2>12
  <1> QED
    BY <1>2, <1>3, <1>4 DEF Deliver

\* A flush takes what was not sent.
LEMMA CountedFlush ==
    ASSUME RInv, NEW of \in flushes, Flush(of)
    PROVE  OneRow' /\ InHand' /\ Counted'
  <1>1. rows' = rows /\ holder = Free /\ (holder' = holder \/ holder' = Sending(Unsent(of), Free))
    BY DEF Flush
  <1>2. Unsent(of) \in SUBSET DOMAIN rows /\ \A k \in Unsent(of) : rows[k].state # "sent"
    BY DEF Unsent
  <1> QED
    BY <1>1, <1>2, CountedWaits, CountedTaken

\* A row counts a message that may have been shown before its state says so.
LEMMA CountedSend ==
    ASSUME RInv, Send
    PROVE  OneRow' /\ InHand' /\ Counted'
  <1> DEFINE o == Oldest
  <1>1. /\ TypeOK /\ o \in DOMAIN rows /\ o \in holder.todo /\ Oldest' = o
        /\ holder # Free /\ holder.step = "send"
        /\ holder' # Free /\ holder'.step = "settle" /\ holder'.todo = holder.todo
        /\ \A k \in DOMAIN rows : rows[k].arrived \in Nat /\ rows[k].blurred \in Nat
        /\ rows[o] \in Row
        /\ rows \in [DOMAIN rows -> Row]
    BY SendEnds, RowsType DEF RInv, Typed
  <1>2. /\ DOMAIN rows' = DOMAIN rows
        /\ \A k \in DOMAIN rows : k # o => rows'[k] = rows[k]
        /\ rows'[o].run = rows[o].run /\ rows'[o].to = rows[o].to
        /\ rows'[o].state = rows[o].state
        /\ \/ rows'[o] = rows[o]
           \/ /\ holder'.end = "sent" /\ rows'[o].arrived = rows[o].arrived + 1
              /\ rows'[o].blurred = rows[o].blurred
           \/ /\ rows'[o].arrived = rows[o].arrived + 1
              /\ rows'[o].blurred = rows[o].blurred + 1
    <2>1. \/ rows' = rows
          \/ holder'.end = "sent" /\ rows' = [rows EXCEPT ![o].arrived = @ + 1]
          \/ rows' = [rows EXCEPT ![o].arrived = @ + 1, ![o].blurred = @ + 1]
      BY SendEnds DEF RInv, Typed
    <2> HIDE DEF o
    <2>2. CASE rows' = rows
      BY <1>1, <2>2
    <2>3. CASE holder'.end = "sent" /\ rows' = [rows EXCEPT ![o].arrived = @ + 1]
      BY <1>1, <2>3 DEF Row
    <2>4. CASE rows' = [rows EXCEPT ![o].arrived = @ + 1, ![o].blurred = @ + 1]
      BY <1>1, <2>4 DEF Row
    <2> QED
      BY <2>1, <2>2, <2>3, <2>4
  <1>3. \A k : ~Accepted(k)
    BY <1>1 DEF Accepted
  <1>4. rows[o].arrived <= rows[o].blurred
    BY <1>1, <1>3 DEF RInv, Counted, InHand
  <1> HIDE DEF o
  <1>5. OneRow'
    BY <1>1, <1>2 DEF RInv, OneRow
  <1>6. InHand'
    <2>1. \A k \in holder.todo : k \in DOMAIN rows
      BY <1>1 DEF TypeOK
    <2> QED
      BY <1>1, <1>2, <2>1 DEF RInv, InHand
  <1>7. Counted'
    <2>1. ASSUME NEW k \in DOMAIN rows, k # o
          PROVE  /\ rows'[k].arrived <= 1 + rows'[k].blurred
                 /\ rows'[k].state # "sent" => rows'[k].arrived <= rows'[k].blurred
      BY <1>2, <1>3, <2>1 DEF RInv, Counted
    <2>2. rows[o].arrived \in Nat /\ rows[o].blurred \in Nat
      BY <1>1
    <2>3. /\ rows'[o].arrived <= 1 + rows'[o].blurred
          /\ holder'.end # "sent" => rows'[o].arrived <= rows'[o].blurred
      <3>1. CASE rows'[o] = rows[o]
        BY <1>4, <2>2, <3>1
      <3>2. CASE /\ holder'.end = "sent" /\ rows'[o].arrived = rows[o].arrived + 1
                 /\ rows'[o].blurred = rows[o].blurred
        BY <1>4, <2>2, <3>2
      <3>3. CASE /\ rows'[o].arrived = rows[o].arrived + 1
                 /\ rows'[o].blurred = rows[o].blurred + 1
        BY <1>4, <2>2, <3>3
      <3> QED
        BY <1>2, <3>1, <3>2, <3>3
    <2>4. \A k : ~Accepted(k)' /\ k = o => holder'.end # "sent"
      BY <1>1 DEF Accepted
    <2> SUFFICES ASSUME NEW k \in DOMAIN rows'
                 PROVE  /\ rows'[k].arrived <= 1 + rows'[k].blurred
                        /\ rows'[k].state # "sent" /\ ~Accepted(k)'
                               => rows'[k].arrived <= rows'[k].blurred
      BY DEF Counted
    <2>5. CASE k = o
      BY <2>3, <2>4, <2>5
    <2>6. CASE k # o
      BY <1>2, <2>1, <2>6
    <2> QED
      BY <2>5, <2>6
  <1> QED
    BY <1>5, <1>6, <1>7

\* Once the row says that it was sent, nobody sends it again.
LEMMA CountedSettle ==
    ASSUME RInv, SettleRow
    PROVE  OneRow' /\ InHand' /\ Counted'
  <1> DEFINE o == Oldest
  <1>1. /\ TypeOK /\ o \in DOMAIN rows /\ o \in holder.todo
        /\ holder # Free /\ holder.step = "settle"
        /\ \A k \in DOMAIN rows : rows[k].arrived \in Nat /\ rows[k].blurred \in Nat
        /\ rows[o] \in Row
        /\ rows \in [DOMAIN rows -> Row]
        /\ holder.todo \subseteq DOMAIN rows
    BY SettleEnds, RowsType DEF RInv, Typed, TypeOK
  <1>2. /\ DOMAIN rows' = DOMAIN rows
        /\ \A k \in DOMAIN rows : k # o => rows'[k] = rows[k]
        /\ rows'[o].run = rows[o].run /\ rows'[o].to = rows[o].to
        /\ rows'[o].arrived = rows[o].arrived
        /\ \/ holder.end = "sent" /\ rows'[o].state = "sent" /\ rows'[o].blurred = rows[o].blurred
           \/ holder.end # "sent" /\ rows'[o].blurred = rows[o].blurred
           \/ rows'[o].blurred = rows[o].blurred + 1
    <2>1. \/ rows' = rows /\ holder.end # "sent"
          \/ rows' = [rows EXCEPT ![o].blurred = @ + 1]
          \/ rows' = [rows EXCEPT ![o] = Settled(rows[o], holder.end)]
      BY SettleEnds DEF RInv, Typed
    <2> HIDE DEF o
    <2>2. CASE rows' = rows /\ holder.end # "sent"
      BY <1>1, <2>2
    <2>3. CASE rows' = [rows EXCEPT ![o].blurred = @ + 1]
      BY <1>1, <2>3 DEF Row
    <2>4. CASE rows' = [rows EXCEPT ![o] = Settled(rows[o], holder.end)]
      <3>1. /\ Settled(rows[o], holder.end).run = rows[o].run
            /\ Settled(rows[o], holder.end).to = rows[o].to
            /\ Settled(rows[o], holder.end).arrived = rows[o].arrived
            /\ Settled(rows[o], holder.end).blurred = rows[o].blurred
            /\ holder.end = "sent" => Settled(rows[o], holder.end).state = "sent"
        BY <1>1 DEF Row, Settled
      <3> QED
        BY <1>1, <2>4, <3>1
    <2> QED
      BY <2>1, <2>2, <2>3, <2>4
  <1>3. /\ holder'.step # "settle"
        /\ holder' # Free => holder'.todo = holder.todo \ {o}
    <2>1. holder.todo \ {o} \in SUBSET (Nat \ {0}) /\ holder.call \in Call \cup {Free}
      BY <1>1, HolderIs
    <2>2. holder' = Sending(holder.todo \ {o}, holder.call)
      BY SettleEnds DEF RInv, Typed
    <2> QED
      BY <2>1, <2>2, SendingType
  <1>4. \A k : ~Accepted(k)'
    BY <1>3 DEF Accepted
  <1>5. /\ rows[o].arrived <= 1 + rows[o].blurred
        /\ holder.end # "sent" => rows[o].arrived <= rows[o].blurred
        /\ \A k \in DOMAIN rows : k # o => ~Accepted(k)
    BY <1>1 DEF RInv, Counted, InHand, Accepted
  <1> HIDE DEF o
  <1>6. OneRow'
    BY <1>1, <1>2 DEF RInv, OneRow
  <1>7. InHand'
    BY <1>1, <1>2, <1>3 DEF RInv, InHand
  <1>8. Counted'
    <2>1. ASSUME NEW k \in DOMAIN rows, k # o
          PROVE  /\ rows'[k].arrived <= 1 + rows'[k].blurred
                 /\ rows'[k].state # "sent" => rows'[k].arrived <= rows'[k].blurred
      BY <1>2, <1>5, <2>1 DEF RInv, Counted
    <2>2. /\ rows'[o].arrived <= 1 + rows'[o].blurred
          /\ rows'[o].state # "sent" => rows'[o].arrived <= rows'[o].blurred
      BY <1>1, <1>2, <1>5
    <2> QED
      BY <1>2, <2>1, <2>2 DEF Counted
  <1> QED
    BY <1>6, <1>7, <1>8

\* A crash loses that a message was accepted, and the row counts that nobody knows.
LEMMA CountedCrash ==
    ASSUME RInv, Crash
    PROVE  OneRow' /\ InHand' /\ Counted'
  <1> DEFINE o == Oldest
  <1>1. /\ TypeOK /\ holder' = Free /\ holder'.step # "settle"
        /\ \A k \in DOMAIN rows : rows[k].arrived \in Nat /\ rows[k].blurred \in Nat
        /\ rows \in [DOMAIN rows -> Row]
    BY RowsType, FreeTypes DEF RInv, Typed, Crash
  <1>2. \A k : ~Accepted(k)'
    BY <1>1 DEF Accepted
  <1>3. CASE ~(holder.step = "settle" /\ holder.end = "sent")
    <2>1. rows' = rows
      BY <1>3 DEF Crash
    <2> QED
      BY <1>1, <1>2, <1>3, <2>1 DEF RInv, OneRow, InHand, Counted, Accepted
  <1>4. CASE holder.step = "settle" /\ holder.end = "sent"
    <2>1. rows' = [rows EXCEPT ![o].blurred = @ + 1] /\ o \in DOMAIN rows
      BY <1>1, <1>4, HolderIs DEF Crash
    <2> HIDE DEF o
    <2>2. /\ DOMAIN rows' = DOMAIN rows
          /\ \A k \in DOMAIN rows : k # o => rows'[k] = rows[k]
          /\ rows'[o].run = rows[o].run /\ rows'[o].to = rows[o].to
          /\ rows'[o].arrived = rows[o].arrived /\ rows'[o].blurred = rows[o].blurred + 1
      BY <1>1, <2>1 DEF Row
    <2>3. rows[o].arrived <= 1 + rows[o].blurred
      BY <2>1 DEF RInv, Counted
    <2>4. \A k \in DOMAIN rows : k # o => ~Accepted(k)
      BY DEF Accepted, o
    <2>5. OneRow'
      BY <2>1, <2>2 DEF RInv, OneRow
    <2>6. ASSUME NEW k \in DOMAIN rows, k # o
          PROVE  /\ rows'[k].arrived <= 1 + rows'[k].blurred
                 /\ rows'[k].state # "sent" => rows'[k].arrived <= rows'[k].blurred
      BY <2>2, <2>4, <2>6 DEF RInv, Counted
    <2>7. rows'[o].arrived <= 1 + rows'[o].blurred /\ rows'[o].arrived <= rows'[o].blurred
      BY <1>1, <2>1, <2>2, <2>3
    <2>8. Counted'
      BY <2>2, <2>6, <2>7 DEF Counted
    <2> QED
      BY <1>1, <2>5, <2>8 DEF InHand
  <1> QED
    BY <1>3, <1>4

\* The inductive invariant of what is shown.
LEMMA RowsInvariant == Spec => []RInv
  <1>1. Init => RInv
    <2> SUFFICES ASSUME Init PROVE RInv
      OBVIOUS
    <2>1. holder = Free /\ rows = <<>> /\ TypeOK
      BY InitTypes DEF Init
    <2>2. Typed
      BY <2>1, FreeTypes DEF Typed, HeldType
    <2>3. DOMAIN rows = {}
      BY <2>1
    <2> QED
      BY <2>1, <2>2, <2>3 DEF RInv, OneRow, InHand, Counted
  <1>2. RInv /\ [Next]_vars => RInv'
    <2> SUFFICES ASSUME RInv, [Next]_vars PROVE OneRow' /\ InHand' /\ Counted'
      BY TypesKept DEF RInv
    <2>1. CASE \/ \E r \in Run : Open(r) \/ Settle(r)
               \/ \E c \in Channels : Register(c) \/ Unregister(c) \/ Inbound(c)
               \/ Boot \/ UNCHANGED vars
      <3>1. rows' = rows /\ holder' = holder
        BY <2>1 DEF Open, Settle, Register, Unregister, Inbound, Boot, vars
      <3> QED
        BY <3>1, CountedWaits
    <2> QED
      BY <2>1, CountedDeliver, CountedFlush, CountedSend, CountedSettle, CountedCrash DEF Next
  <1> QED
    BY <1>1, <1>2, PTL DEF Spec

\* A sum over the rows of a reply in a chat is that of its row, if it has one.
LEMMA SumsOfNone ==
    /\ MapThenSumSet(LAMBDA k : rows[k].arrived, {}) = 0
    /\ MapThenSumSet(LAMBDA k : rows[k].blurred, {}) = 0
  <1>1. MapThenSumSet(LAMBDA k : rows[k].arrived, {}) = 0
    <2> DEFINE body(f) ==
                   [s \in SUBSET {} |->
                       IF s = {} THEN 0
                       ELSE rows[CHOOSE x \in s : TRUE].arrived + f[s \ {CHOOSE x \in s : TRUE}]]
               sum == CHOOSE f : f = body(f)
               zero == [s \in SUBSET {} |-> 0]
    <2>1. MapThenSumSet(LAMBDA k : rows[k].arrived, {}) = sum[{}]
      BY DEF MapThenSumSet, MapThenFoldSet
    <2>2. \A s \in SUBSET {} : s = {}
      OBVIOUS
    <2>3. zero = body(zero)
      BY <2>2
    <2>4. sum = body(sum)
      <3> HIDE DEF body, zero
      <3> QED
        BY <2>3
    <2>5. {} \in SUBSET {}
      OBVIOUS
    <2> HIDE DEF sum
    <2> QED
      BY <2>1, <2>4, <2>5
  <1>2. MapThenSumSet(LAMBDA k : rows[k].blurred, {}) = 0
    <2> DEFINE body(f) ==
                   [s \in SUBSET {} |->
                       IF s = {} THEN 0
                       ELSE rows[CHOOSE x \in s : TRUE].blurred + f[s \ {CHOOSE x \in s : TRUE}]]
               sum == CHOOSE f : f = body(f)
               zero == [s \in SUBSET {} |-> 0]
    <2>1. MapThenSumSet(LAMBDA k : rows[k].blurred, {}) = sum[{}]
      BY DEF MapThenSumSet, MapThenFoldSet
    <2>2. \A s \in SUBSET {} : s = {}
      OBVIOUS
    <2>3. zero = body(zero)
      BY <2>2
    <2>4. sum = body(sum)
      <3> HIDE DEF body, zero
      <3> QED
        BY <2>3
    <2>5. {} \in SUBSET {}
      OBVIOUS
    <2> HIDE DEF sum
    <2> QED
      BY <2>1, <2>4, <2>5
  <1> QED
    BY <1>1, <1>2

\* The sums over the row of a reply in a chat.
LEMMA SumsOfOne ==
    ASSUME NEW k, rows[k].arrived \in Nat, rows[k].blurred \in Nat
    PROVE  /\ MapThenSumSet(LAMBDA j : rows[j].arrived, {k}) = rows[k].arrived
           /\ MapThenSumSet(LAMBDA j : rows[j].blurred, {k}) = rows[k].blurred
  <1>1. /\ \A s \in SUBSET {k} : s # {} => (CHOOSE x \in s : TRUE) = k /\ s \ {k} = {}
        /\ {} \in SUBSET {k} /\ {k} \in SUBSET {k} /\ {k} # {}
    OBVIOUS
  <1>2. MapThenSumSet(LAMBDA j : rows[j].arrived, {k}) = rows[k].arrived
    <2> DEFINE body(f) ==
                   [s \in SUBSET {k} |->
                       IF s = {} THEN 0
                       ELSE rows[CHOOSE x \in s : TRUE].arrived + f[s \ {CHOOSE x \in s : TRUE}]]
               sum == CHOOSE f : f = body(f)
               one == [s \in SUBSET {k} |-> IF s = {} THEN 0 ELSE rows[k].arrived]
    <2>1. MapThenSumSet(LAMBDA j : rows[j].arrived, {k}) = sum[{k}]
      BY DEF MapThenSumSet, MapThenFoldSet
    <2>2. one = body(one)
      BY <1>1
    <2>3. sum = body(sum)
      <3> HIDE DEF body, one
      <3> QED
        BY <2>2
    <2> HIDE DEF sum
    <2>4. sum[{}] = 0
      BY <1>1, <2>3
    <2>5. sum[{k}] = rows[k].arrived + sum[{}]
      BY <1>1, <2>3
    <2> QED
      BY <2>1, <2>4, <2>5
  <1>3. MapThenSumSet(LAMBDA j : rows[j].blurred, {k}) = rows[k].blurred
    <2> DEFINE body(f) ==
                   [s \in SUBSET {k} |->
                       IF s = {} THEN 0
                       ELSE rows[CHOOSE x \in s : TRUE].blurred + f[s \ {CHOOSE x \in s : TRUE}]]
               sum == CHOOSE f : f = body(f)
               one == [s \in SUBSET {k} |-> IF s = {} THEN 0 ELSE rows[k].blurred]
    <2>1. MapThenSumSet(LAMBDA j : rows[j].blurred, {k}) = sum[{k}]
      BY DEF MapThenSumSet, MapThenFoldSet
    <2>2. one = body(one)
      BY <1>1
    <2>3. sum = body(sum)
      <3> HIDE DEF body, one
      <3> QED
        BY <2>2
    <2> HIDE DEF sum
    <2>4. sum[{}] = 0
      BY <1>1, <2>3
    <2>5. sum[{k}] = rows[k].blurred + sum[{}]
      BY <1>1, <2>3
    <2> QED
      BY <2>1, <2>4, <2>5
  <1> QED
    BY <1>2, <1>3

\* A chat shows a reply once, and again only when nobody could know.
THEOREM RepliesShownOnce == Spec => []ShownOnce
  <1>1. ASSUME RInv PROVE ShownOnce
    <2> SUFFICES ASSUME NEW r \in Run, NEW c \in Channels
                 PROVE  MapThenSumSet(LAMBDA k : rows[k].arrived,
                                      {k \in DOMAIN rows : rows[k].run = r /\ rows[k].to = c})
                            <= 1 + MapThenSumSet(LAMBDA k : rows[k].blurred,
                                      {k \in DOMAIN rows : rows[k].run = r /\ rows[k].to = c})
      BY DEF ShownOnce, Total
    <2> DEFINE these == {k \in DOMAIN rows : rows[k].run = r /\ rows[k].to = c}
               arrived == MapThenSumSet(LAMBDA k : rows[k].arrived, these)
               blurred == MapThenSumSet(LAMBDA k : rows[k].blurred, these)
    <2>1. these = {} \/ \E k \in DOMAIN rows : these = {k}
      BY <1>1 DEF RInv, OneRow
    <2>2. CASE these = {}
      <3>1. arrived = 0 /\ blurred = 0
        <4> HIDE DEF these
        <4> QED
          BY <2>2, SumsOfNone
      <3> HIDE DEF arrived, blurred
      <3>2. arrived <= 1 + blurred
        BY <3>1
      <3> QED
        BY <3>2 DEF arrived, blurred
    <2>3. ASSUME NEW k \in DOMAIN rows, these = {k} PROVE arrived <= 1 + blurred
      <3>1. /\ rows[k].arrived \in Nat /\ rows[k].blurred \in Nat
            /\ rows[k].arrived <= 1 + rows[k].blurred
        BY <1>1, RowsType DEF RInv, Typed, Counted
      <3>2. arrived = rows[k].arrived /\ blurred = rows[k].blurred
        <4> HIDE DEF these
        <4> QED
          BY <2>3, <3>1, SumsOfOne
      <3> HIDE DEF arrived, blurred
      <3> QED
        BY <3>1, <3>2
    <2> QED
      BY <2>1, <2>2, <2>3
  <1> QED
    BY <1>1, RowsInvariant, PTL

-----------------------------------------------------------------------------
(* Nothing is forgotten.                                                   *)

\* A reply has a row for a chat, and for its first chats.
HasRow(r, c) == \E k \in DOMAIN rows : rows[k].run = r /\ rows[k].to = c
Before(r, n) == \A i \in 1 .. n - 1 : HasRow(r, Targets[r][i])

\* A row that could be sent now, and a flush of its chat.
Due(k) == rows[k].state # "sent" /\ rows[k].to \in sender /\ rows[k].why # "refused"
InFlush(c) == \E of \in flushes : c \in of

\* A row that could be sent is in the hands of the holder of the lock, or a
\* flush of its chat is to come; the row that was just put off has one, too.
Awaited ==
    ~broken => \A k \in DOMAIN rows :
                   Due(k) => (holder # Free /\ k \in holder.todo) \/ InFlush(rows[k].to)
PutOff ==
    ~broken /\ holder.step = "settle" /\ holder.end = "unavailable" /\ rows[Oldest].to \in sender
        => InFlush(rows[Oldest].to)

\* A call has a row for each chat it has passed, and the one whose row is held
\* has that as well.
CallsPassed == \A c \in calls : Before(c.run, c.at)
HeldPassed ==
    holder # Free /\ holder.call # Free => Before(holder.call.run, holder.call.at + 1)

\* Somebody asks for the reply of a settled run, unless it is recorded.
Asked(r) ==
    \/ \E c \in calls : c.run = r
    \/ holder # Free /\ holder.call # Free /\ holder.call.run = r
Remembered ==
    up => \A r \in Run : run[r] = "settled" =>
              Recorded(r) \/ r \in missed \/ r \notin Newest \/ Asked(r)

FInv == Typed /\ Awaited /\ PutOff /\ CallsPassed /\ HeldPassed /\ Remembered

\* A row stays, with what it stands for.
RowsStay ==
    \A k \in DOMAIN rows :
        /\ k \in DOMAIN rows' /\ rows'[k] \in Row
        /\ rows'[k].run = rows[k].run /\ rows'[k].to = rows[k].to

\* So does what a step does not look at.
AllBut(o) == \A k \in DOMAIN rows' : k # o => k \in DOMAIN rows /\ rows'[k] = rows[k]

\* A step that changes one row.
LEMMA OneRowStays ==
    ASSUME TypeOK, NEW o \in DOMAIN rows, NEW row \in Row,
           row.run = rows[o].run, row.to = rows[o].to,
           rows' = [rows EXCEPT ![o] = row]
    PROVE  RowsStay /\ AllBut(o) /\ DOMAIN rows' = DOMAIN rows /\ rows'[o] = row
  <1>1. rows \in [1 .. Len(rows) -> Row] /\ DOMAIN rows = 1 .. Len(rows)
        /\ \A k \in DOMAIN rows : rows[k] \in Row
    BY RowsType
  <1> QED
    BY <1>1 DEF RowsStay, AllBut

\* A step that changes none.
LEMMA SameRowsStay ==
    ASSUME TypeOK, rows' = rows
    PROVE  RowsStay /\ DOMAIN rows' = DOMAIN rows /\ \A o : AllBut(o)
  BY RowsType DEF RowsStay, AllBut

\* What `deliver_once' does to the rows.
LEMMA DeliverRows ==
    ASSUME TypeOK, NEW c \in calls, Deliver(c)
    PROVE  /\ RowsStay
           /\ \/ rows' = rows
              \/ /\ AllBut(Len(rows) + 1) /\ DOMAIN rows' = 1 .. Len(rows) + 1
                 /\ rows'[Len(rows) + 1].run = c.run /\ rows'[Len(rows) + 1].to = Target(c)
                 /\ holder' = Sending({Len(rows) + 1}, c) /\ calls' = calls \ {c}
                 /\ missed' = missed
  <1>1. /\ c \in Call /\ Target(c) \in Channels /\ c.run \in Run
        /\ rows \in Seq(Row) /\ Len(rows) \in Nat /\ DOMAIN rows = 1 .. Len(rows)
    BY RowsType, TargetType DEF TypeOK
  <1>2. CASE rows' = rows
    BY <1>2, SameRowsStay
  <1>3. CASE /\ rows' = Append(rows, [run |-> c.run, to |-> Target(c), state |-> "pending",
                                      why |-> "new", arrived |-> 0, blurred |-> 0])
             /\ holder' = Sending({Len(rows) + 1}, c) /\ calls' = calls \ {c}
             /\ missed' = missed
    <2> DEFINE n == Len(rows)
               row == [run |-> c.run, to |-> Target(c), state |-> "pending",
                       why |-> "new", arrived |-> 0, blurred |-> 0]
    <2>1. row \in Row /\ row.run = c.run /\ row.to = Target(c)
      BY <1>1, NewRowType
    <2>2. rows' = Append(rows, row)
      BY <1>3
    <2> HIDE DEF row
    <2>3. /\ rows' \in Seq(Row) /\ Len(rows') = n + 1
          /\ \A k \in 1 .. n : rows'[k] = rows[k]
          /\ rows'[n + 1] = row
      BY <1>1, <2>1, <2>2, AppendProperties
    <2>4. DOMAIN rows' = 1 .. n + 1
      BY <2>3, LenProperties
    <2>5. \A k \in DOMAIN rows : k \in DOMAIN rows' /\ rows'[k] = rows[k] /\ rows[k] \in Row
      BY <1>1, <2>3, <2>4, RowsType
    <2>6. RowsStay
      BY <2>5 DEF RowsStay
    <2>7. AllBut(n + 1)
      BY <1>1, <2>3, <2>4 DEF AllBut
    <2> QED
      BY <1>3, <2>1, <2>3, <2>4, <2>6, <2>7
  <1> QED
    BY <1>2, <1>3 DEF Deliver

\* What `attempt' does to the row: nothing that is looked at here.
LEMMA SendRows ==
    ASSUME TypeOK, Send
    PROVE  /\ RowsStay /\ DOMAIN rows' = DOMAIN rows
           /\ \A k \in DOMAIN rows : /\ rows'[k].state = rows[k].state
                                     /\ rows'[k].why = rows[k].why
  <1> DEFINE o == Oldest
  <1>1. /\ o \in DOMAIN rows /\ rows[o] \in Row
        /\ \/ rows' = rows
           \/ rows' = [rows EXCEPT ![o] = [rows[o] EXCEPT !.arrived = @ + 1]]
           \/ rows' = [rows EXCEPT ![o] = [rows[o] EXCEPT !.arrived = @ + 1, !.blurred = @ + 1]]
    BY SendEnds, RowsType
  <1> HIDE DEF o
  <1>2. CASE rows' = rows
    BY <1>2, SameRowsStay
  <1>3. ASSUME NEW row \in Row, row.run = rows[o].run, row.to = rows[o].to,
               row.state = rows[o].state, row.why = rows[o].why,
               rows' = [rows EXCEPT ![o] = row]
        PROVE  /\ RowsStay /\ DOMAIN rows' = DOMAIN rows
               /\ \A k \in DOMAIN rows : /\ rows'[k].state = rows[k].state
                                         /\ rows'[k].why = rows[k].why
    BY <1>1, <1>3, OneRowStays DEF AllBut
  <1>4. CASE rows' = [rows EXCEPT ![o] = [rows[o] EXCEPT !.arrived = @ + 1]]
    <2> DEFINE row == [rows[o] EXCEPT !.arrived = @ + 1]
    <2>1. /\ row \in Row /\ row.run = rows[o].run /\ row.to = rows[o].to
          /\ row.state = rows[o].state /\ row.why = rows[o].why
      BY <1>1, RowChanges DEF Row
    <2>2. rows' = [rows EXCEPT ![o] = row]
      BY <1>4
    <2> HIDE DEF row
    <2> QED
      BY <1>3, <2>1, <2>2
  <1>5. CASE rows' = [rows EXCEPT ![o] = [rows[o] EXCEPT !.arrived = @ + 1, !.blurred = @ + 1]]
    <2> DEFINE row == [rows[o] EXCEPT !.arrived = @ + 1, !.blurred = @ + 1]
    <2>1. /\ row \in Row /\ row.run = rows[o].run /\ row.to = rows[o].to
          /\ row.state = rows[o].state /\ row.why = rows[o].why
      BY <1>1, RowChanges DEF Row
    <2>2. rows' = [rows EXCEPT ![o] = row]
      BY <1>5
    <2> HIDE DEF row
    <2> QED
      BY <1>3, <2>1, <2>2
  <1> QED
    BY <1>1, <1>2, <1>4, <1>5

\* What `settle' does to the row.
LEMMA SettleRows ==
    ASSUME Typed, SettleRow
    PROVE  /\ RowsStay /\ DOMAIN rows' = DOMAIN rows /\ AllBut(Oldest)
           /\ ~broken' => /\ ~broken
                          /\ holder.end = "sent" => rows'[Oldest].state = "sent"
                          /\ holder.end # "sent" /\ holder.end # "unavailable"
                                 => rows'[Oldest].why = "refused"
  <1> DEFINE o == Oldest
             end == holder.end
  <1>1. /\ TypeOK /\ o \in DOMAIN rows /\ rows[o] \in Row
        /\ \/ rows' = [rows EXCEPT ![o] = Settled(rows[o], end)] /\ broken' = broken
           \/ rows' = [rows EXCEPT ![o] = [rows[o] EXCEPT !.blurred = @ + 1]] /\ broken'
           \/ rows' = rows /\ broken'
    BY SettleEnds, RowsType DEF Typed
  <1> HIDE DEF o, end
  <1>2. CASE rows' = [rows EXCEPT ![o] = Settled(rows[o], end)] /\ broken' = broken
    <2> DEFINE row == Settled(rows[o], end)
    <2>1. /\ row \in Row /\ row.run = rows[o].run /\ row.to = rows[o].to
          /\ end = "sent" => row.state = "sent"
          /\ end # "sent" /\ end # "unavailable" => row.why = "refused"
      <3>1. row \in Row
        BY <1>1, RowChanges
      <3> QED
        BY <1>1, <3>1 DEF Settled, Row
    <2>2. rows' = [rows EXCEPT ![o] = row]
      BY <1>2
    <2> HIDE DEF row
    <2>3. RowsStay /\ DOMAIN rows' = DOMAIN rows /\ AllBut(o) /\ rows'[o] = row
      BY <1>1, <2>1, <2>2, OneRowStays
    <2> QED
      BY <1>2, <2>1, <2>3 DEF o, end
  <1>3. CASE rows' = [rows EXCEPT ![o] = [rows[o] EXCEPT !.blurred = @ + 1]] /\ broken'
    <2> DEFINE row == [rows[o] EXCEPT !.blurred = @ + 1]
    <2>1. row \in Row /\ row.run = rows[o].run /\ row.to = rows[o].to
      BY <1>1, RowChanges DEF Row
    <2>2. rows' = [rows EXCEPT ![o] = row]
      BY <1>3
    <2> HIDE DEF row
    <2>3. RowsStay /\ DOMAIN rows' = DOMAIN rows /\ AllBut(o)
      BY <1>1, <2>1, <2>2, OneRowStays
    <2> QED
      BY <1>3, <2>3 DEF o
  <1>4. CASE rows' = rows /\ broken'
    BY <1>1, <1>4, SameRowsStay
  <1> QED
    BY <1>1, <1>2, <1>3, <1>4

\* What a crash does to the rows.
LEMMA CrashRows == ASSUME TypeOK, Crash PROVE RowsStay
  <1> DEFINE o == Oldest
             row == [rows[o] EXCEPT !.blurred = @ + 1]
  <1>1. CASE ~(holder.step = "settle" /\ holder.end = "sent")
    BY <1>1, SameRowsStay DEF Crash
  <1>2. CASE holder.step = "settle" /\ holder.end = "sent"
    <2>1. o \in DOMAIN rows /\ rows[o] \in Row
      BY <1>2, HolderIs
    <2>2. row \in Row /\ row.run = rows[o].run /\ row.to = rows[o].to
      BY <2>1, RowChanges DEF Row
    <2>3. rows' = [rows EXCEPT ![o] = row]
      BY <1>2 DEF Crash
    <2> HIDE DEF row, o
    <2> QED
      BY <2>1, <2>2, <2>3, OneRowStays
  <1> QED
    BY <1>1, <1>2

\* What is recorded stays recorded.
LEMMA RecordedStays ==
    ASSUME RowsStay
    PROVE  /\ \A r, c : HasRow(r, c) => HasRow(r, c)'
           /\ \A r, n : Before(r, n) => Before(r, n)'
           /\ \A r : Recorded(r) => Recorded(r)'
  <1>1. \A r, c : HasRow(r, c) => HasRow(r, c)'
    BY DEF RowsStay, HasRow
  <1>2. \A r, n : Before(r, n) => Before(r, n)'
    BY <1>1 DEF Before
  <1>3. \A r : Recorded(r) => Recorded(r)'
    BY DEF RowsStay, Recorded
  <1> QED
    BY <1>1, <1>2, <1>3

\* A call that has passed all chats of its reply.
LEMMA AllPassed ==
    ASSUME NEW r \in Run, Before(r, Len(Targets[r]) + 1)
    PROVE  Recorded(r)
  <1>1. Targets[r] \in Seq(Channels)
    BY TargetsAssumption
  <1>2. Len(Targets[r]) \in Nat /\ DOMAIN Targets[r] = 1 .. Len(Targets[r])
    BY <1>1, LenProperties
  <1>3. \A i \in DOMAIN Targets[r] : HasRow(r, Targets[r][i])
    BY <1>2 DEF Before
  <1> QED
    BY <1>3 DEF Recorded, HasRow

\* A run the replay does not reach is not reached later.
LEMMA NotReached ==
    ASSUME NEW r \in Run, run[r] = "settled", r \notin Newest,
           \A q \in Run : run[q] = "settled" => run'[q] = "settled"
    PROVE  r \notin Newest'
  <1> DEFINE later == {q \in r + 1 .. NRuns : run[q] = "settled"}
             then == {q \in r + 1 .. NRuns : run'[q] = "settled"}
  <1>1. r \in Nat /\ NRuns \in Nat /\ Recent \in Nat /\ r + 1 \in Int /\ NRuns \in Int
    BY BoundsAssumption DEF Run
  <1>2. IsFiniteSet(r + 1 .. NRuns)
    BY <1>1, FS_Interval
  <1>3. later \subseteq then
    <2> SUFFICES ASSUME NEW q \in r + 1 .. NRuns, run[q] = "settled" PROVE run'[q] = "settled"
      OBVIOUS
    <2>1. q \in Run
      BY <1>1 DEF Run
    <2> QED
      BY <2>1
  <1>4. IsFiniteSet(then)
    <2>1. then \subseteq r + 1 .. NRuns
      OBVIOUS
    <2> HIDE DEF then
    <2> QED
      BY <1>2, <2>1, FS_Subset
  <1>5. /\ IsFiniteSet(later) /\ Cardinality(later) <= Cardinality(then)
        /\ Cardinality(later) \in Nat /\ Cardinality(then) \in Nat
    <2> HIDE DEF later, then
    <2> QED
      BY <1>3, <1>4, FS_Subset, FS_CardinalityType
  <1>6. ~(Cardinality(later) < Recent)
    BY DEF Newest
  <1>7. ~(Cardinality(then) < Recent)
    <2> HIDE DEF later, then
    <2> QED
      BY <1>1, <1>5, <1>6
  <1> QED
    BY <1>7 DEF Newest

\* A step that leaves the lock and the rows alone.
LEMMA RunAwaited ==
    ASSUME FInv,
           \/ \E r \in Run : Open(r) \/ Settle(r)
           \/ \E c \in Channels : Register(c) \/ Unregister(c) \/ Inbound(c)
           \/ Boot
    PROVE  Awaited' /\ PutOff'
  <1>1. rows' = rows /\ holder' = holder
    BY DEF Open, Settle, Register, Unregister, Inbound, Boot
  <1>2. Oldest' = Oldest
    BY <1>1 DEF Oldest
  <1>3. ASSUME broken' = broken, flushes \subseteq flushes',
               \A k \in Channels : k \in sender' => k \in sender \/ InFlush(k)'
        PROVE  Awaited' /\ PutOff'
    <2>1. \A k : InFlush(k) => InFlush(k)'
      BY <1>3 DEF InFlush
    <2>2. \A k \in DOMAIN rows : rows[k].to \in Channels
      BY RowsType DEF FInv, Typed
    <2>3. ASSUME NEW k \in DOMAIN rows, ~broken, Due(k)'
          PROVE  (holder # Free /\ k \in holder.todo) \/ InFlush(rows[k].to)'
      <3>1. CASE InFlush(rows[k].to)'
        BY <3>1
      <3>2. CASE rows[k].to \in sender
        <4>1. Due(k)
          BY <1>1, <2>3, <3>2 DEF Due
        <4> QED
          BY <1>1, <2>1, <2>3, <4>1 DEF FInv, Awaited, InFlush
      <3> QED
        BY <1>1, <1>3, <2>2, <2>3, <3>1, <3>2 DEF Due
    <2>4. Awaited'
      BY <1>1, <1>3, <2>3 DEF Awaited, InFlush
    <2>5. PutOff'
      <3> SUFFICES ASSUME NEW c, c = rows[Oldest].to,
                          ~broken, holder.step = "settle", holder.end = "unavailable",
                          c \in sender'
                   PROVE  InFlush(c)'
        BY <1>1, <1>2, <1>3 DEF PutOff, InFlush
      <3>1. Oldest \in DOMAIN rows
        BY HolderIs DEF FInv, Typed, Free
      <3>2. c \in Channels
        BY <2>2, <3>1
      <3>3. c \in sender => InFlush(c)
        BY DEF FInv, PutOff
      <3> QED
        BY <1>3, <2>1, <3>2, <3>3
    <2> QED
      BY <2>4, <2>5
  <1>4. ASSUME NEW r \in Run, Open(r) \/ Settle(r) PROVE Awaited' /\ PutOff'
    BY <1>3, <1>4 DEF Open, Settle
  <1>5. ASSUME NEW c \in Channels, Register(c) PROVE Awaited' /\ PutOff'
    <2>1. InFlush(c)'
      BY <1>5 DEF Register, InFlush
    <2> QED
      BY <1>3, <1>5, <2>1 DEF Register
  <1>6. ASSUME NEW c \in Channels, Unregister(c) \/ Inbound(c) PROVE Awaited' /\ PutOff'
    BY <1>3, <1>6 DEF Unregister, Inbound
  <1>7. CASE Boot
    <2>1. flushes = {} /\ sender' = sender /\ broken' = broken
      BY <1>7 DEF Boot, FInv, Typed, TypeOK
    <2> QED
      BY <1>3, <2>1
  <1> QED
    BY <1>4, <1>5, <1>6, <1>7

\* Who asks for a reply, while runs are opened and settled and channels come and go.
LEMMA RunRemembered ==
    ASSUME FInv,
           \/ \E r \in Run : Open(r) \/ Settle(r)
           \/ \E c \in Channels : Register(c) \/ Unregister(c) \/ Inbound(c)
           \/ Boot
    PROVE  CallsPassed' /\ HeldPassed' /\ Remembered'
  <1>1. rows' = rows /\ holder' = holder /\ RowsStay
    BY SameRowsStay DEF FInv, Typed, Open, Settle, Register, Unregister, Inbound, Boot
  <1>2. /\ \A r, n : Before(r, n) => Before(r, n)'
        /\ \A r : Recorded(r) => Recorded(r)'
    BY <1>1, RecordedStays
  <1>3. HeldPassed'
    BY <1>1, <1>2 DEF FInv, HeldPassed, Before, HasRow
  <1>4. \A r : Before(r, 1)'
    BY DEF Before
  <1>5. ASSUME NEW r \in Run, Open(r) PROVE CallsPassed' /\ HeldPassed' /\ Remembered'
    <2>1. /\ calls' = calls /\ missed' = missed /\ up
          /\ \A q \in Run : run[q] = "settled" <=> run'[q] = "settled"
      BY <1>5 DEF Open, memory, FInv, Typed, TypeOK
    <2>2. CallsPassed' /\ HeldPassed'
      BY <1>2, <1>3, <2>1 DEF FInv, CallsPassed
    <2>3. \A q \in Run : run[q] = "settled" /\ q \notin Newest => q \notin Newest'
      BY <2>1, NotReached
    <2>4. \A q : Asked(q) => Asked(q)'
      BY <1>1, <2>1 DEF Asked
    <2> QED
      BY <1>2, <2>1, <2>2, <2>3, <2>4 DEF FInv, Remembered
  <1>6. ASSUME NEW r \in Run, Settle(r) PROVE CallsPassed' /\ HeldPassed' /\ Remembered'
    <2>1. /\ calls \subseteq calls' /\ missed \subseteq missed' /\ up
          /\ run' = [run EXCEPT ![r] = "settled"] /\ run \in [Run -> {"none", "open", "settled"}]
          /\ \A c \in calls' : c \in calls \/ c.at = 1
          /\ r \in missed' \/ [by |-> "frame", run |-> r, at |-> 1] \in calls'
      BY <1>6 DEF Settle, FInv, Typed, TypeOK
    <2>7. r \in missed' \/ Asked(r)'
      <3>1. [by |-> "frame", run |-> r, at |-> 1].run = r
        OBVIOUS
      <3> QED
        BY <2>1, <3>1 DEF Asked
    <2>2. CallsPassed' /\ HeldPassed'
      BY <1>2, <1>3, <1>4, <2>1 DEF FInv, CallsPassed
    <2>3. \A q \in Run : run[q] = "settled" => run'[q] = "settled"
      BY <2>1
    <2>4. \A q \in Run : run[q] = "settled" /\ q \notin Newest => q \notin Newest'
      BY <2>3, NotReached
    <2>5. \A q : Asked(q) => Asked(q)'
      BY <1>1, <2>1 DEF Asked
    <2>6. \A q \in Run : run'[q] = "settled" => run[q] = "settled" \/ q = r
      BY <2>1
    <2> QED
      BY <1>2, <2>1, <2>2, <2>4, <2>5, <2>6, <2>7 DEF FInv, Remembered
  <1>7. ASSUME NEW c \in Channels, Register(c) \/ Unregister(c) \/ Inbound(c)
        PROVE  CallsPassed' /\ HeldPassed' /\ Remembered'
    <2>1. calls' = calls /\ missed' = missed /\ up /\ run' = run
      BY <1>7 DEF Register, Unregister, Inbound, memory, FInv, Typed, TypeOK
    <2>2. CallsPassed' /\ HeldPassed'
      BY <1>2, <1>3, <2>1 DEF FInv, CallsPassed
    <2>3. Newest' = Newest
      BY <2>1 DEF Newest
    <2>4. \A q : Asked(q) => Asked(q)'
      BY <1>1, <2>1 DEF Asked
    <2> QED
      BY <1>2, <2>1, <2>2, <2>3, <2>4 DEF FInv, Remembered
  <1>8. CASE Boot
    <2>1. /\ calls' = {[by |-> "replay", run |-> r, at |-> 1] : r \in Newest}
          /\ run' = run
      BY <1>8 DEF Boot
    <2>2. \A c \in calls' : c.at = 1
      BY <2>1
    <2>3. CallsPassed' /\ HeldPassed'
      BY <1>3, <1>4, <2>2 DEF CallsPassed
    <2>4. Newest' = Newest
      BY <2>1 DEF Newest
    <2>5. ASSUME NEW r \in Newest PROVE Asked(r)'
      <3>1. /\ [by |-> "replay", run |-> r, at |-> 1] \in calls'
            /\ [by |-> "replay", run |-> r, at |-> 1].run = r
        BY <2>1
      <3> QED
        BY <3>1 DEF Asked
    <2> QED
      BY <2>3, <2>4, <2>5 DEF Remembered
  <1> QED
    BY <1>5, <1>6, <1>7, <1>8

\* A step that settles no run, after which somebody still asks for each reply.
LEMMA RememberedStays ==
    ASSUME FInv, RowsStay, up' => up, run' = run, missed \subseteq missed',
           \A r \in Run : Asked(r) => Asked(r)' \/ r \in missed' \/ Recorded(r)'
    PROVE  Remembered'
  <1>1. \A r : Recorded(r) => Recorded(r)'
    BY RecordedStays
  <1>2. Newest' = Newest
    BY DEF Newest
  <1> QED
    BY <1>1, <1>2 DEF FInv, Remembered

\* A call moves on to the next chat.
LEMMA OneMore ==
    ASSUME NEW c \in Call, Fits(c), Before(c.run, c.at), HasRow(c.run, Target(c))
    PROVE  Before(c.run, c.at + 1)
  <1>1. c.at \in Nat \ {0}
    BY TargetType DEF Fits
  <1> SUFFICES ASSUME NEW i \in 1 .. (c.at + 1) - 1 PROVE HasRow(c.run, Targets[c.run][i])
    BY DEF Before
  <1>2. i \in 1 .. c.at - 1 \/ i = c.at
    BY <1>1
  <1> QED
    BY <1>2 DEF Before, Target

\* What the caller of a delivery does when the row of the chat is there.
LEMMA ReturnAnswers ==
    ASSUME NEW c \in Call, Fits(c), Before(c.run, c.at + 1), NEW ok \in BOOLEAN, Return(c, ok)
    PROVE  /\ \A d \in calls' : d \in calls \/ (d.run = c.run /\ d.at = c.at + 1)
           /\ missed \subseteq missed'
           /\ \A d \in calls : d \in calls' \/ d = c
           /\ \/ c.run \in missed' \/ Recorded(c.run)
              \/ \E d \in calls' : d.run = c.run
  <1> DEFINE next == [c EXCEPT !.at = @ + 1]
  <1>1. c.run \in Run /\ c.at \in Nat \ {0} /\ Len(Targets[c.run]) \in Nat
        /\ c.at <= Len(Targets[c.run])
    BY TargetType DEF Fits
  <1>2. next.at = c.at + 1 /\ next.run = c.run
    BY <1>1 DEF Call
  <1>3. calls' = (calls \ {c}) \cup (IF ok /\ c.at < Len(Targets[c.run]) THEN {next} ELSE {})
    BY DEF Return
  <1>4. missed' = IF c.at < Len(Targets[c.run]) /\ ~ok THEN missed \cup {c.run} ELSE missed
    BY DEF Return
  <1> HIDE DEF next
  <1>5. CASE c.at < Len(Targets[c.run])
    BY <1>2, <1>3, <1>4, <1>5
  <1>6. CASE ~(c.at < Len(Targets[c.run]))
    <2>1. c.at + 1 = Len(Targets[c.run]) + 1
      BY <1>1, <1>6
    <2>2. Recorded(c.run)
      BY <1>1, <2>1, AllPassed
    <2> QED
      BY <1>3, <1>4, <1>6, <2>2
  <1> QED
    BY <1>5, <1>6

\* The lock is taken for the row of a reply, or the reply is returned to who
\* asked for it.
LEMMA DeliverEnds ==
    ASSUME FInv, NEW c \in calls, Deliver(c)
    PROVE  /\ c \in Call /\ Fits(c) /\ holder = Free /\ RowsStay /\ run' = run /\ up' = up
           /\ sender' = sender /\ flushes' = flushes /\ (~broken' => ~broken)
           /\ \/ /\ rows' = rows /\ holder' = Free /\ HasRow(c.run, Target(c)) /\ Return(c, TRUE)
              \/ /\ rows' = rows /\ holder' = Free
                 /\ calls' = calls \ {c} /\ missed' = missed \cup {c.run}
              \/ \E k \in DOMAIN rows' :
                     /\ AllBut(k) /\ HasRow(c.run, Target(c))'
                     /\ holder' = Sending({k}, c) /\ k \in Nat \ {0}
                     /\ calls' = calls \ {c} /\ missed' = missed
  <1>1. /\ TypeOK /\ c \in Call /\ Fits(c) /\ holder = Free
        /\ run' = run /\ up' = up /\ sender' = sender /\ flushes' = flushes
        /\ Len(rows) \in Nat /\ DOMAIN rows = 1 .. Len(rows)
    <2>1. TypeOK /\ c \in Call /\ Fits(c)
      BY DEF FInv, Typed, TypeOK, Fits
    <2> QED
      BY <2>1, RowsType DEF Deliver
  <1>5. ~broken' => ~broken
    BY DEF Deliver, Fails
  <1>2. RowsStay
    BY <1>1, DeliverRows
  <1>3. CASE /\ AllBut(Len(rows) + 1) /\ DOMAIN rows' = 1 .. Len(rows) + 1
             /\ rows'[Len(rows) + 1].run = c.run /\ rows'[Len(rows) + 1].to = Target(c)
             /\ holder' = Sending({Len(rows) + 1}, c) /\ calls' = calls \ {c}
             /\ missed' = missed
    <2>1. Len(rows) + 1 \in DOMAIN rows' /\ Len(rows) + 1 \in Nat \ {0}
      BY <1>1, <1>3
    <2>2. HasRow(c.run, Target(c))'
      BY <1>3, <2>1 DEF HasRow, Target
    <2> QED
      BY <1>1, <1>2, <1>3, <1>5, <2>1, <2>2
  <1>4. CASE rows' = rows
    <2>1. ASSUME NEW k \in Existing(c), rows[k].state # "sent", holder' = Sending({k}, c),
                 calls' = calls \ {c}, missed' = missed
          PROVE  \E l \in DOMAIN rows' :
                     /\ AllBut(l) /\ HasRow(c.run, Target(c))'
                     /\ holder' = Sending({l}, c) /\ l \in Nat \ {0}
                     /\ calls' = calls \ {c} /\ missed' = missed
      <3>1. k \in DOMAIN rows' /\ AllBut(k) /\ k \in Nat \ {0}
        BY <1>1, <1>4, <2>1 DEF Existing, AllBut
      <3>2. HasRow(c.run, Target(c))'
        BY <1>4, <2>1 DEF Existing, HasRow, Target
      <3> QED
        BY <2>1, <3>1, <3>2
    <2>2. ASSUME NEW k \in Existing(c) PROVE HasRow(c.run, Target(c))
      BY <2>2 DEF Existing, HasRow
    <2>3. CASE Existing(c) = {} /\ rows' = Append(rows, [run |-> c.run, to |-> Target(c),
                   state |-> "pending", why |-> "new", arrived |-> 0, blurred |-> 0])
      <3>1. Len(rows') = Len(rows) + 1
        <4>1. rows \in Seq(Row) /\ Target(c) \in Channels /\ c.run \in Run
          BY <1>1, TargetType DEF TypeOK, Fits
        <4> QED
          BY <2>3, <4>1, NewRowType, AppendProperties
      <3> QED
        BY <1>1, <1>4, <3>1
    <2>4. \/ Existing(c) = {} /\ rows' = Append(rows, [run |-> c.run, to |-> Target(c),
                   state |-> "pending", why |-> "new", arrived |-> 0, blurred |-> 0])
          \/ \E k \in Existing(c) : /\ rows[k].state # "sent" /\ holder' = Sending({k}, c)
                                    /\ calls' = calls \ {c} /\ missed' = missed
          \/ \E k \in Existing(c) : holder' = Free /\ Return(c, TRUE)
          \/ /\ holder' = Free /\ calls' = calls \ {c} /\ missed' = missed \cup {c.run}
      BY <1>1 DEF Deliver
    <2> QED
      BY <1>1, <1>2, <1>4, <1>5, <2>1, <2>2, <2>3, <2>4
  <1> QED
    BY <1>1, <1>3, <1>4, DeliverRows

\* A delivery has its row, or its error is remembered.
LEMMA DeliverRemembers ==
    ASSUME FInv, NEW c \in calls, Deliver(c)
    PROVE  Awaited' /\ PutOff' /\ CallsPassed' /\ HeldPassed' /\ Remembered'
  <1>1. /\ c \in Call /\ Fits(c) /\ holder = Free /\ RowsStay /\ run' = run /\ up' = up
        /\ sender' = sender /\ flushes' = flushes /\ (~broken' => ~broken)
    BY DeliverEnds
  <1>2. /\ \A r, n : Before(r, n) => Before(r, n)'
        /\ \A r : Recorded(r) => Recorded(r)'
        /\ \A r, d : HasRow(r, d) => HasRow(r, d)'
    BY <1>1, RecordedStays
  <1>3. Before(c.run, c.at) /\ \A d \in calls : Before(d.run, d.at)'
    BY <1>2 DEF FInv, CallsPassed
  <1>4. \A r : Asked(r) => \E d \in calls : d.run = r
    BY <1>1 DEF Asked
  <1>5. ~broken => \A k \in DOMAIN rows : Due(k) => InFlush(rows[k].to)
    BY <1>1 DEF FInv, Awaited
  <1>6. CASE rows' = rows /\ holder' = Free
    <2>1. holder'.step # "settle"
      BY <1>6, FreeTypes
    <2>2. Awaited' /\ PutOff' /\ HeldPassed'
      BY <1>1, <1>5, <1>6, <2>1 DEF Awaited, PutOff, HeldPassed, Due, InFlush
    <2>3. CASE HasRow(c.run, Target(c)) /\ Return(c, TRUE)
      <3>1. Before(c.run, c.at + 1)
        BY <1>1, <1>3, <2>3, OneMore
      <3>2. /\ \A d \in calls' : d \in calls \/ (d.run = c.run /\ d.at = c.at + 1)
            /\ missed \subseteq missed'
            /\ \A d \in calls : d \in calls' \/ d = c
            /\ \/ c.run \in missed' \/ Recorded(c.run)
               \/ \E d \in calls' : d.run = c.run
        BY <1>1, <2>3, <3>1, ReturnAnswers
      <3>3. CallsPassed'
        BY <1>2, <1>3, <3>1, <3>2 DEF CallsPassed
      <3>4. Remembered'
        BY <1>1, <1>2, <1>4, <3>2, RememberedStays DEF Asked
      <3> QED
        BY <2>2, <3>3, <3>4
    <2>4. CASE calls' = calls \ {c} /\ missed' = missed \cup {c.run}
      <3>1. CallsPassed'
        BY <1>3, <2>4 DEF CallsPassed
      <3>2. Remembered'
        BY <1>1, <1>4, <2>4, RememberedStays DEF Asked
      <3> QED
        BY <2>2, <3>1, <3>2
    <2>5. ASSUME NEW k, holder' = Sending({k}, c), k \in Nat \ {0} PROVE FALSE
      BY <1>1, <1>6, <2>5, SendingType
    <2> QED
      BY <2>3, <2>4, <2>5, DeliverEnds
  <1>7. ASSUME NEW k \in DOMAIN rows', AllBut(k), HasRow(c.run, Target(c))',
               holder' = Sending({k}, c), k \in Nat \ {0},
               calls' = calls \ {c}, missed' = missed
        PROVE  Awaited' /\ PutOff' /\ CallsPassed' /\ HeldPassed' /\ Remembered'
    <2>1. /\ holder' # Free /\ holder'.todo = {k} /\ holder'.call = c
          /\ holder'.step # "settle"
      BY <1>1, <1>7, SendingType
    <2>2. Awaited'
      <3> SUFFICES ASSUME ~broken', NEW l \in DOMAIN rows', Due(l)', l # k
                   PROVE  InFlush(rows[l].to)'
        BY <2>1, <1>7 DEF Awaited, AllBut, InFlush
      <3>1. l \in DOMAIN rows /\ rows'[l] = rows[l]
        BY <1>7 DEF AllBut
      <3>2. Due(l)
        BY <1>1, <3>1 DEF Due
      <3> QED
        BY <1>1, <1>5, <3>1, <3>2 DEF InFlush
    <2>3. PutOff'
      BY <2>1 DEF PutOff
    <2>4. CallsPassed'
      BY <1>3, <1>7 DEF CallsPassed
    <2>5. Before(c.run, c.at + 1)'
      <3>1. c.at \in Nat \ {0}
        BY <1>1, TargetType DEF Fits
      <3> SUFFICES ASSUME NEW i \in 1 .. (c.at + 1) - 1
                   PROVE  HasRow(c.run, Targets[c.run][i])'
        BY DEF Before
      <3>2. i \in 1 .. c.at - 1 \/ i = c.at
        BY <3>1
      <3>3. Before(c.run, c.at)'
        BY <1>2, <1>3
      <3> QED
        BY <1>7, <3>2, <3>3 DEF Before, Target
    <2>6. HeldPassed'
      BY <2>1, <2>5 DEF HeldPassed
    <2>7. Remembered'
      <3>1. ASSUME NEW r, Asked(r) PROVE Asked(r)'
        <4>1. PICK d \in calls : d.run = r
          BY <1>4, <3>1
        <4>2. CASE d = c
          <5>1. holder' # Free /\ holder'.call = c /\ c.run = r /\ c \in Call
            BY <1>1, <2>1, <4>1, <4>2
          <5>2. holder'.call # Free
            BY <5>1, FreeTypes DEF Call, Free
          <5> QED
            BY <5>1, <5>2 DEF Asked
        <4>3. CASE d # c
          BY <1>7, <4>1, <4>3 DEF Asked
        <4> QED
          BY <4>2, <4>3
      <3> QED
        BY <1>1, <1>7, <3>1, RememberedStays
    <2> QED
      BY <2>2, <2>3, <2>4, <2>6, <2>7
  <1> QED
    BY <1>6, <1>7, DeliverEnds

\* A flush takes all that waits for it.
LEMMA FlushRemembers ==
    ASSUME FInv, NEW of \in flushes, Flush(of)
    PROVE  Awaited' /\ PutOff' /\ CallsPassed' /\ HeldPassed' /\ Remembered'
  <1>1. /\ rows' = rows /\ holder = Free /\ flushes' = flushes \ {of} /\ sender' = sender
        /\ calls' = calls /\ missed' = missed /\ run' = run /\ up' = up
        /\ ~broken' => ~broken /\ holder' = Sending(Unsent(of), Free)
    BY DEF Flush, memory, Fails
  <1>2. RowsStay
    BY <1>1, SameRowsStay DEF FInv, Typed
  <1>3. Unsent(of) \in SUBSET (Nat \ {0})
    BY RowsType DEF Unsent, FInv, Typed
  <1>4. \/ holder' = Free
        \/ holder' # Free /\ holder'.step = "send" /\ holder'.call = Free
    <2>1. holder' = Free \/ holder' = Sending(Unsent(of), Free)
      BY <1>1 DEF Flush
    <2> QED
      BY <1>3, <2>1, SendingType
  <1>5. holder'.step # "settle" /\ HeldPassed'
    BY <1>4, FreeTypes DEF HeldPassed
  <1>6. Awaited'
    <2> SUFFICES ASSUME ~broken', NEW k \in DOMAIN rows, Due(k)'
                 PROVE  (holder' # Free /\ k \in holder'.todo) \/ InFlush(rows[k].to)'
      BY <1>1 DEF Awaited, InFlush
    <2>1. Due(k) /\ rows[k].state # "sent"
      BY <1>1 DEF Due
    <2>2. PICK f \in flushes : rows[k].to \in f
      BY <1>1, <2>1 DEF FInv, Awaited, InFlush
    <2>3. CASE f = of
      <3>1. k \in Unsent(of)
        BY <2>1, <2>2, <2>3 DEF Unsent
      <3>2. holder' = Sending(Unsent(of), Free)
        BY <1>1
      <3> QED
        BY <1>3, <3>1, <3>2, SendingType
    <2>4. CASE f # of
      BY <1>1, <2>2, <2>4 DEF InFlush
    <2> QED
      BY <2>3, <2>4
  <1>7. CallsPassed'
    BY <1>1, <1>2, RecordedStays DEF FInv, CallsPassed
  <1>8. Remembered'
    BY <1>1, <1>2, RememberedStays DEF Asked
  <1> QED
    BY <1>5, <1>6, <1>7, <1>8 DEF PutOff

\* A row is put off only while its channel is away.
LEMMA SendRemembers ==
    ASSUME FInv, Send
    PROVE  Awaited' /\ PutOff' /\ CallsPassed' /\ HeldPassed' /\ Remembered'
  <1>1. /\ holder # Free /\ Oldest \in DOMAIN rows /\ Oldest' = Oldest
        /\ holder' # Free /\ holder'.todo = holder.todo /\ holder'.call = holder.call
        /\ holder'.end = "unavailable" => rows[Oldest].to \notin sender
    BY SendEnds DEF FInv, Typed
  <1>2. /\ RowsStay /\ DOMAIN rows' = DOMAIN rows
        /\ \A k \in DOMAIN rows : /\ rows'[k].state = rows[k].state
                                  /\ rows'[k].why = rows[k].why
    BY SendRows DEF FInv, Typed
  <1>3. UNCHANGED <<run, calls, flushes, sender, broken, up, missed>>
    BY DEF Send, memory
  <1>4. \A r, n : Before(r, n) => Before(r, n)'
    BY <1>2, RecordedStays
  <1>5. Awaited'
    <2> SUFFICES ASSUME ~broken, NEW k \in DOMAIN rows, Due(k)'
                 PROVE  (holder' # Free /\ k \in holder'.todo)
                            \/ \E f \in flushes : rows[k].to \in f
      <3>1. \A k \in DOMAIN rows : rows'[k].to = rows[k].to
        BY <1>2 DEF RowsStay
      <3> QED
        BY <1>2, <1>3, <3>1 DEF Awaited, InFlush
    <2>1. Due(k)
      BY <1>2, <1>3 DEF Due, RowsStay
    <2> QED
      BY <1>1, <1>3, <2>1 DEF FInv, Awaited, InFlush
  <1>6. PutOff'
    <2>1. rows'[Oldest].to = rows[Oldest].to
      BY <1>1, <1>2 DEF RowsStay
    <2> QED
      BY <1>1, <1>3, <2>1 DEF PutOff
  <1>7. CallsPassed' /\ HeldPassed'
    <2>1. CallsPassed'
      BY <1>3, <1>4 DEF FInv, CallsPassed
    <2>2. PICK c : c = holder.call
      OBVIOUS
    <2>3. c # Free => Before(c.run, c.at + 1)'
      BY <1>1, <1>4, <2>2 DEF FInv, HeldPassed
    <2>4. HeldPassed'
      BY <1>1, <2>2, <2>3 DEF HeldPassed
    <2> QED
      BY <2>1, <2>4
  <1>8. Remembered'
    BY <1>1, <1>2, <1>3, RememberedStays DEF Asked
  <1> QED
    BY <1>5, <1>6, <1>7, <1>8

\* A row that was put off is sent by a flush, and the call goes on to its next chat.
LEMMA SettleRemembers ==
    ASSUME FInv, SettleRow
    PROVE  Awaited' /\ PutOff' /\ CallsPassed' /\ HeldPassed' /\ Remembered'
  <1>0. PICK o, c : o = Oldest /\ c = holder.call
    OBVIOUS
  <1>1. /\ TypeOK /\ HeldType(holder, Len(rows))
        /\ holder # Free /\ holder.step = "settle"
        /\ o \in holder.todo /\ o \in DOMAIN rows
        /\ holder' = Sending(holder.todo \ {o}, c)
        /\ \/ c = Free /\ UNCHANGED <<calls, missed>>
           \/ c \in Call /\ Return(c, holder.end # "error")
    BY <1>0, SettleEnds DEF FInv, Typed
  <1>2. /\ RowsStay /\ DOMAIN rows' = DOMAIN rows /\ AllBut(o)
        /\ ~broken' => /\ ~broken
                       /\ holder.end = "sent" => rows'[o].state = "sent"
                       /\ holder.end # "sent" /\ holder.end # "unavailable"
                              => rows'[o].why = "refused"
    BY <1>0, SettleRows DEF FInv
  <1>3. UNCHANGED <<run, up, flushes, sender>>
    BY DEF SettleRow
  <1>4. \A r, n : Before(r, n) => Before(r, n)'
    BY <1>2, RecordedStays
  <1>5. /\ holder'.step # "settle"
        /\ holder.todo \ {o} # {} => holder' # Free /\ holder'.todo = holder.todo \ {o}
        /\ holder' # Free => holder'.call = c
    <2>1. holder.todo \ {o} \in SUBSET (Nat \ {0}) /\ c \in Call \cup {Free}
      BY <1>0, <1>1, HolderIs
    <2>2. /\ Sending(holder.todo \ {o}, c) = Free <=> holder.todo \ {o} = {}
          /\ Sending(holder.todo \ {o}, c) # Free =>
                 /\ Sending(holder.todo \ {o}, c).todo = holder.todo \ {o}
                 /\ Sending(holder.todo \ {o}, c).call = c
          /\ Sending(holder.todo \ {o}, c).step # "settle"
      BY <2>1, SendingType
    <2> QED
      BY <1>1, <2>2
  <1>6. PutOff'
    BY <1>5 DEF PutOff
  <1>7. o \in DOMAIN rows /\ rows'[o].to = rows[o].to
    BY <1>1, <1>2 DEF RowsStay
  <1>8. ~broken /\ holder.end = "unavailable" /\ rows[o].to \in sender => InFlush(rows[o].to)
    BY <1>0, <1>1 DEF FInv, PutOff
  <1>9. Awaited'
    <2> SUFFICES ASSUME ~broken', NEW k \in DOMAIN rows, Due(k)', ~(k \in holder.todo /\ k # o)
                 PROVE  \E f \in flushes : rows[k].to \in f
      <3>1. ASSUME ~broken', NEW k \in DOMAIN rows', Due(k)', k \in holder.todo, k # o
            PROVE  holder' # Free /\ k \in holder'.todo
        BY <1>5, <3>1
      <3>2. \A k \in DOMAIN rows : rows'[k].to = rows[k].to
        BY <1>2 DEF RowsStay
      <3> QED
        BY <1>2, <1>3, <3>1, <3>2 DEF Awaited, InFlush
    <2>1. CASE k = o
      <3>1. rows'[o].state # "sent" /\ rows'[o].to \in sender' /\ rows'[o].why # "refused"
        BY <2>1 DEF Due
      <3>2. holder.end = "unavailable" /\ ~broken
        BY <1>2, <3>1
      <3> QED
        BY <1>3, <1>7, <1>8, <2>1, <3>1, <3>2 DEF InFlush
    <2>2. CASE k # o
      <3>1. rows'[k] = rows[k] /\ k \notin holder.todo /\ ~broken
        BY <1>2, <2>2 DEF AllBut
      <3>2. Due(k)
        BY <1>3, <3>1 DEF Due
      <3> QED
        BY <3>1, <3>2 DEF FInv, Awaited, InFlush
    <2> QED
      BY <2>1, <2>2
  <1>10. CASE c = Free
    <2>1. holder' # Free => holder'.call = Free
      BY <1>5, <1>10
    <2>2. HeldPassed'
      BY <2>1 DEF HeldPassed
    <2>3. UNCHANGED <<calls, missed>>
      <3>1. c \notin Call
        BY <1>10, FreeTypes DEF Call, Free
      <3> QED
        BY <1>1, <3>1
    <2>4. CallsPassed'
      BY <1>4, <2>3 DEF FInv, CallsPassed
    <2>5. \A r : Asked(r) => Asked(r)'
      BY <1>0, <1>10, <2>3 DEF Asked
    <2>6. Remembered'
      BY <1>2, <1>3, <2>3, <2>5, RememberedStays
    <2> QED
      BY <1>6, <1>9, <2>2, <2>4, <2>6
  <1>11. CASE c \in Call /\ Return(c, holder.end # "error")
    <2>1. c # Free
      BY <1>11, FreeTypes DEF Call, Free
    <2>2. Fits(c) /\ Before(c.run, c.at + 1)
      BY <1>0, <1>1, <2>1 DEF HeldType, FInv, HeldPassed
    <2>3. /\ \A d \in calls' : d \in calls \/ (d.run = c.run /\ d.at = c.at + 1)
          /\ missed \subseteq missed'
          /\ \A d \in calls : d \in calls' \/ d = c
          /\ \/ c.run \in missed' \/ Recorded(c.run)
             \/ \E d \in calls' : d.run = c.run
      <3> QED
        BY <1>11, <2>2, ReturnAnswers
    <2>4. HeldPassed'
      <3>1. holder' # Free => holder'.call = c
        BY <1>5
      <3>2. Before(c.run, c.at + 1)'
        BY <1>4, <2>2
      <3> QED
        BY <3>1, <3>2 DEF HeldPassed
    <2>5. CallsPassed'
      BY <1>4, <2>2, <2>3 DEF FInv, CallsPassed
    <2>6. \A r : Asked(r) => Asked(r)' \/ r \in missed' \/ Recorded(r)'
      <3>1. Recorded(c.run) => Recorded(c.run)'
        BY <1>2, RecordedStays
      <3>2. \A r : Asked(r) => r = c.run \/ \E d \in calls : d # c /\ d.run = r
        BY <1>0 DEF Asked
      <3> QED
        BY <2>3, <3>1, <3>2 DEF Asked
    <2>7. Remembered'
      BY <1>2, <1>3, <2>3, <2>6, RememberedStays
    <2> QED
      BY <1>6, <1>9, <2>4, <2>5, <2>7
  <1> QED
    BY <1>1, <1>10, <1>11

\* A crash ends everything, and no channel is left.
LEMMA CrashRemembers ==
    ASSUME FInv, Crash
    PROVE  Awaited' /\ PutOff' /\ CallsPassed' /\ HeldPassed' /\ Remembered'
  <1>1. ~up' /\ calls' = {} /\ holder' = Free /\ sender' = {} /\ holder'.step # "settle"
    BY FreeTypes DEF Crash
  <1> QED
    BY <1>1 DEF Awaited, Due, PutOff, CallsPassed, HeldPassed, Remembered

\* The inductive invariant of what is remembered.
LEMMA MemoryInvariant == Spec => []FInv
  <1>1. Init => FInv
    <2> SUFFICES ASSUME Init PROVE FInv
      OBVIOUS
    <2>1. holder = Free /\ rows = <<>> /\ TypeOK /\ calls = {} /\ ~up /\ holder.step # "settle"
      BY InitTypes, FreeTypes DEF Init
    <2>2. Typed
      BY <2>1, FreeTypes DEF Typed, HeldType
    <2>3. DOMAIN rows = {}
      BY <2>1
    <2> QED
      BY <2>1, <2>2, <2>3 DEF FInv, Awaited, PutOff, CallsPassed, HeldPassed, Remembered
  <1>2. FInv /\ [Next]_vars => FInv'
    <2> SUFFICES ASSUME FInv, [Next]_vars
                 PROVE  Awaited' /\ PutOff' /\ CallsPassed' /\ HeldPassed' /\ Remembered'
      BY TypesKept DEF FInv
    <2>1. CASE \/ \E r \in Run : Open(r) \/ Settle(r)
               \/ \E c \in Channels : Register(c) \/ Unregister(c) \/ Inbound(c)
               \/ Boot
      BY <2>1, RunAwaited, RunRemembered
    <2>2. CASE UNCHANGED vars
      <3>1. /\ UNCHANGED <<run, rows, up, calls, flushes, holder, sender, missed, broken>>
            /\ RowsStay
        BY <2>2, SameRowsStay DEF vars, FInv, Typed
      <3>2. Awaited' /\ PutOff'
        BY <3>1 DEF FInv, Awaited, PutOff, Due, InFlush, Oldest
      <3>3. CallsPassed' /\ HeldPassed'
        BY <3>1 DEF FInv, CallsPassed, HeldPassed, Before, HasRow
      <3>4. Remembered'
        BY <3>1, RememberedStays DEF Asked
      <3> QED
        BY <3>2, <3>3, <3>4
    <2> QED
      BY <2>1, <2>2, DeliverRemembers, FlushRemembers, SendRemembers, SettleRemembers,
         CrashRemembers DEF Next
  <1> QED
    BY <1>1, <1>2, PTL DEF Spec

\* A reply has a row for each of its chats, and a row that is unsent was refused.
THEOREM RepliesReachTheirChats == Spec => []NothingForgotten
  <1>1. ASSUME FInv PROVE NothingForgotten
    <2> SUFFICES ASSUME Quiet PROVE NothingForgotten!2
      BY DEF NothingForgotten
    <2>1. /\ holder = Free /\ calls = {} /\ flushes = {} /\ up
      BY DEF Quiet
    <2>2. ASSUME NEW k \in DOMAIN rows, ~broken, rows[k].to \in sender, rows[k].state # "sent"
          PROVE  rows[k].why = "refused"
      <3>1. ~InFlush(rows[k].to)
        BY <2>1 DEF InFlush
      <3> QED
        BY <1>1, <2>1, <2>2, <3>1 DEF FInv, Awaited, Due
    <2>3. ASSUME NEW r \in Run, run[r] = "settled"
          PROVE  Recorded(r) \/ r \in missed \/ r \notin Newest
      <3>1. ~Asked(r)
        BY <2>1 DEF Asked
      <3> QED
        BY <1>1, <2>1, <2>3, <3>1 DEF FInv, Remembered
    <2> QED
      BY <2>2, <2>3
  <1> QED
    BY <1>1, MemoryInvariant, PTL
=============================================================================
